---- MODULE Spec2Model ----
(***************************************************************************)
(* Model of the resumable downloaders of codes/speech.py                   *)
(* (download_speeches, handle_download) and codes/voting.py                *)
(* (download_votings): the download log, the raw-document directory and    *)
(* the steps of one run, including the buffering of the log writer.        *)
(*                                                                         *)
(* A date is a triple <<year, month, day>>.  A log file is a sequence of   *)
(* CSV rows; row 1 is the header row, every row is a tuple of fields.      *)
(***************************************************************************)
EXTENDS Integers, Sequences, FiniteSets, TLC

(* ---------------- bounds of the model ---------------- *)

\* number of consecutive calendar days a run can range over
NumDays == 2
\* number of download runs of one behaviour
MaxRuns == 2

(* ---------------- calendar ---------------- *)

IsLeap(y) == (y % 4 = 0 /\ y % 100 # 0) \/ y % 400 = 0

DaysInMonth(y, m) ==
    IF m = 2 THEN (IF IsLeap(y) THEN 29 ELSE 28)
    ELSE IF m \in {4, 6, 9, 11} THEN 30 ELSE 31

\* the next calendar day (one step of freq='D')
NextDay(d) ==
    IF d[3] < DaysInMonth(d[1], d[2]) THEN <<d[1], d[2], d[3] + 1>>
    ELSE IF d[2] < 12 THEN <<d[1], d[2] + 1, 1>>
    ELSE <<d[1] + 1, 1, 1>>

\* d1 <= d2 on timestamps
DateLE(d1, d2) ==
    \/ d1[1] < d2[1]
    \/ d1[1] = d2[1] /\ d1[2] < d2[2]
    \/ d1[1] = d2[1] /\ d1[2] = d2[2] /\ d1[3] <= d2[3]

RECURSIVE date_range(_, _)
\* pd.date_range(start, end, freq='D'): every day of the inclusive range,
\* ascending; empty when start is after end
date_range(start, end) ==
    IF DateLE(start, end) THEN <<start>> \o date_range(NextDay(start), end)
    ELSE << >>

Pad2(n) == IF n < 10 THEN "0" \o ToString(n) ELSE ToString(n)

\* date.strftime('%Y-%m-%d') (years of four digits)
strftime(d) == ToString(d[1]) \o "-" \o Pad2(d[2]) \o "-" \o Pad2(d[3])

(* ---------------- term resolver and document locator ---------------- *)

NoTerm == 0

get_term_ExclusiveEnd(date) ==
    IF DateLE(<<2019, 7, 2>>, date) /\ DateLE(date, <<2024, 7, 1>>)
          /\ date # <<2024, 7, 1>> THEN 9
    ELSE IF DateLE(<<2024, 7, 2>>, date) /\ DateLE(date, <<2029, 7, 1>>)
          /\ date # <<2029, 7, 1>> THEN 10
    ELSE NoTerm

\* get_term of speech.py: the first window of date_ranges that contains the
\* date, None (NoTerm) when the loop ends without a match
get_term(date) ==
    IF DateLE(<<2019, 7, 2>>, date) /\ DateLE(date, <<2024, 7, 1>>) THEN 9
    ELSE IF DateLE(<<2024, 7, 2>>, date) /\ DateLE(date, <<2029, 7, 1>>) THEN 10
    ELSE NoTerm

\* get_term of voting.py, written out a second time there
get_term_voting(date) ==
    IF DateLE(<<2019, 7, 2>>, date) /\ DateLE(date, <<2024, 7, 1>>) THEN 9
    ELSE IF DateLE(<<2024, 7, 2>>, date) /\ DateLE(date, <<2029, 7, 1>>) THEN 10
    ELSE NoTerm

BaseUrl == "https://www.europarl.europa.eu/doceo/document/"

build_url(term, date) ==
    BaseUrl \o "CRE-" \o ToString(term) \o "-" \o strftime(date) \o "_EN.xml"

build_url_vote(term, date) ==
    BaseUrl \o "PV-" \o ToString(term) \o "-" \o strftime(date) \o "-RCV_EN.xml"

RawName_SpeechPrefix(k, term, date_str) ==
    "CRE-" \o ToString(term) \o "-" \o date_str \o ".xml"

\* name of the raw file of a date: save_speech_file / download_votings
RawName(k, term, date_str) ==
    (IF k = "speech" THEN "CRE-" ELSE "PV-")
        \o ToString(term) \o "-" \o date_str \o ".xml"

UrlOf(k, term, date) ==
    IF k = "speech" THEN build_url(term, date) ELSE build_url_vote(term, date)

(* ---------------- the download log as pandas reads it ---------------- *)

Header == <<"Date", "Status", "Details">>

\* pd.DataFrame(columns=['Date', 'Status', 'Details'])
EmptyDF == [columns |-> Header, rows |-> << >>]

\* pd.read_csv raises EmptyDataError on a file of size 0
read_csv_raises(file) == file = << >>

\* pd.read_csv of a file whose rows have as many fields as its header row:
\* the first row names the columns, the others are the data rows
read_csv(file) == [columns |-> file[1], rows |-> Tail(file)]

HasColumn(df, name) == \E i \in 1..Len(df.columns) : df.columns[i] = name

ColumnIndex(df, name) ==
    CHOOSE i \in 1..Len(df.columns) : df.columns[i] = name

\* initialize_log of both modules, for a log that read_csv can read
initialize_log(exists, file) ==
    IF exists
    THEN LET log_df == read_csv(file)
         IN  IF ~HasColumn(log_df, "Status") \/ ~HasColumn(log_df, "Date")
             THEN EmptyDF
             ELSE log_df
    ELSE EmptyDF

\* set(log_df.loc[log_df['Status'] == status, 'Date'])
StatusDates(df, status) ==
    { df.rows[i][ColumnIndex(df, "Date")] :
        i \in { j \in 1..Len(df.rows) :
                  df.rows[j][ColumnIndex(df, "Status")] = status } }

processed_dates(df) == StatusDates(df, "Success")

not_found_dates(df) == StatusDates(df, "Not Found")

IsSkipped_SuccessOnly(df, date_str) == date_str \in processed_dates(df)

IsSkipped_NotFoundOnly(df, date_str) == date_str \in not_found_dates(df)

IsSkipped_AnyRow(df, date_str) ==
    \E i \in 1..Len(df.rows) : df.rows[i][ColumnIndex(df, "Date")] = date_str

IsSkipped_Never(df, date_str) == FALSE

\* the test that makes the loop 'continue' without handling the date
IsSkipped(df, date_str) ==
    date_str \in processed_dates(df) \/ date_str \in not_found_dates(df)

\* the file a run writes to after open(log_path, 'a'): created empty when
\* absent, otherwise its content is kept
OpenAppend_Truncating(exists, file) == << >>

OpenAppend(exists, file) == IF exists THEN file ELSE << >>

\* log_writer.writerow(row) on the buffered text file: the row joins the
\* pending rows; the io layer may pass the pending rows to the file before
\* or after taking the new one, always in whole rows and in order
WriteRow(file, pending, row) ==
    { [file |-> file, buf |-> Append(pending, row)],
      [file |-> file \o pending, buf |-> <<row>>],
      [file |-> file \o pending \o <<row>>, buf |-> << >>] }

(* ---------------- outcome classification ---------------- *)

Classify_NotFoundAsFailed(code) == <<"Failed", "HTTP " \o ToString(code)>>

\* status and details of the row for a response that is not 200
Classify(code) ==
    IF code = 404 THEN <<"Not Found", "URL not found">>
    ELSE <<"Failed", "HTTP " \o ToString(code)>>

SaveErrorStatus_Generic(error) == "Error"

\* status of the row download_votings appends when writing the raw file
\* raises: OSError => 'File Error', ValueError => 'Value Error'
SaveErrorStatus(error) ==
    IF error = "OSError" THEN "File Error" ELSE "Value Error"

(* ---------------- inputs ---------------- *)

\* first day of the modelled calendar window: the last day of term 10, so
\* that the window holds days with and without a term
FirstDay == <<2029, 7, 1>>

RECURSIVE DaysFrom(_, _)
DaysFrom(d, n) == IF n = 0 THEN {} ELSE {d} \cup DaysFrom(NextDay(d), n - 1)

\* the days a run's start_date and end_date are drawn from
Days == DaysFrom(FirstDay, NumDays)

\* status codes the server answers with
Codes == {200, 404, 500}

\* bodies the server answers a 200 with
Payloads == {"<xml a/>", "<xml b/>"}

\* headers of a log that lacks the 'Status' or the 'Date' column
BadHeaders == { <<"Date", "State", "Details">>, <<"Day", "Status", "Details">> }

\* what writing the raw file can do: succeed; fail at open (OSError, file
\* untouched); fail at write after open truncated the file (OSError, or
\* UnicodeEncodeError, a ValueError)
SaveResults == {"ok", "open_error", "write_error", "encode_error"}

SaveException(res) == IF res = "encode_error" THEN "ValueError" ELSE "OSError"

NoResp == [code |-> 0, text |-> "", url |-> ""]

(* ---------------- state ---------------- *)

VARIABLES
    kind,        \* "speech" (download_speeches) or "voting" (download_votings)
    logExists,   \* os.path.exists(log_path)
    logFile,     \* rows of the log file on disk
    rawFiles,    \* raw-document directory: file name -> content
    pc,          \* "idle", "loop", "got" (response in hand), "saved"
    range,       \* <<start_date, end_date>> of the run
    dates,       \* pd.date_range(start_date, end_date)
    idx,         \* position of the loop in dates
    log_df,      \* the log as loaded at the start of the run
    buf,         \* rows written to log_writer that have not reached the file
    resp,        \* the response of the GET of the current date, and its URL
    runs,        \* number of runs started
    lastRun,     \* how the latest run ended, "running" while it runs
    exc,         \* exception raised by the latest step, "none" otherwise
    logAtStart,  \* rows of the log file when the run opened it
    undelayed    \* a GET of this run was attempted and time.sleep(0.1) has
                 \* not been called since

vars == <<kind, logExists, logFile, rawFiles, pc, range, dates, idx, log_df,
          buf, resp, runs, lastRun, exc, logAtStart, undelayed>>

\* state of the term resolver taken alone
VARIABLES
    term_date,    \* the date get_term is called with
    term_speech,  \* <<r>> once get_term of speech.py returned r, << >> before
    term_voting   \* <<r>> once get_term of voting.py returned r, << >> before

termVars == <<term_date, term_speech, term_voting>>

\* the term resolver at rest
TermIdle ==
    /\ term_date = <<2019, 7, 2>>
    /\ term_speech = << >>
    /\ term_voting = << >>

\* state of one call of split_text_into_chunks
VARIABLES
    split_input,   \* the text the function was called with
    split_max,     \* max_length
    split_text,    \* text: what is left to split
    split_chunks,  \* chunks
    split_pc       \* "idle", "loop" (at the while test), "done" (returned)

splitVars == <<split_input, split_max, split_text, split_chunks, split_pc>>

\* no call of split_text_into_chunks under way
SplitIdle ==
    /\ split_input = << >>
    /\ split_max = 1
    /\ split_text = << >>
    /\ split_chunks = << >>
    /\ split_pc = "idle"

\* state of one call of translate_text
VARIABLES
    tr_text,        \* the text translate_text was called with
    tr_pc,          \* "idle", "start", "chunk", "returned", "raised"
    tr_lang,        \* detect(text): "en", "fr"; "raise" when detect raised;
                    \* "none" before detect is called
    tr_long,        \* len(text) > 5000
    tr_chunks,      \* the chunks handed to translate_chunk, in order
    tr_pos,         \* position in tr_chunks of the chunk being translated
    tr_attempt,     \* attempt of the for loop of translate_chunk
    tr_log,         \* the calls of translator.translate for the latest chunk:
                    \* what each did and the time slept after it
    tr_translated,  \* what translate_chunk returned for the chunks done
    tr_result,      \* <<text, flag>> once translate_text returned
    tr_failing      \* no call of translator.translate has done anything but
                    \* raise one of the three caught exceptions

trVars == <<tr_text, tr_pc, tr_lang, tr_long, tr_chunks, tr_pos, tr_attempt,
            tr_log, tr_translated, tr_result, tr_failing>>

\* no call of translate_text under way
TranslateIdle ==
    /\ tr_text = << >>
    /\ tr_pc = "idle"
    /\ tr_lang = "none"
    /\ tr_long = FALSE
    /\ tr_chunks = << >>
    /\ tr_pos = 1
    /\ tr_attempt = 0
    /\ tr_log = << >>
    /\ tr_translated = << >>
    /\ tr_result = << >>
    /\ tr_failing = TRUE

\* state of one call of calculate_duration
VARIABLES
    dur_start,   \* time_start
    dur_end,     \* time_end
    dur_result   \* <<r>> once the function returned r, << >> before

durVars == <<dur_start, dur_end, dur_result>>

\* no call of calculate_duration under way
DurationIdle ==
    /\ dur_start = << >>
    /\ dur_end = << >>
    /\ dur_result = << >>

\* state of one call of parse_speeches
VARIABLES
    ps_dir,       \* the .xml files of input_dir, in the order of os.listdir
    ps_idx,       \* position of the loop in ps_dir
    ps_combined,  \* combined_data
    ps_reported,  \* names of the files an error was printed for
    ps_pc,        \* "idle", "loop", "done" (returned), "raised"
    ps_exc,       \* the exception that left parse_speeches, "none" otherwise
    ps_csv        \* << >> while there is no output file, <<rows>> once written

psVars == <<ps_dir, ps_idx, ps_combined, ps_reported, ps_pc, ps_exc, ps_csv>>

\* no call of parse_speeches under way
SpeechesIdle ==
    /\ ps_dir = << >>
    /\ ps_idx = 1
    /\ ps_combined = << >>
    /\ ps_reported = << >>
    /\ ps_pc = "idle"
    /\ ps_exc = "none"
    /\ ps_csv = << >>

\* state of one call of parse_votings
VARIABLES
    pv_dir,       \* the .xml files of input_dir, in the order of os.listdir
    pv_idx,       \* position of the loop in pv_dir
    pv_combined,  \* combined_data
    pv_reported,  \* names of the files an error was printed for
    pv_pc,        \* "idle", "loop", "done" (returned), "raised"
    pv_exc,       \* the exception that left parse_votings, "none" otherwise
    pv_csv        \* << >> while there is no output file, <<rows>> once written

pvVars == <<pv_dir, pv_idx, pv_combined, pv_reported, pv_pc, pv_exc, pv_csv>>

\* no call of parse_votings under way
VotesIdle ==
    /\ pv_dir = << >>
    /\ pv_idx = 1
    /\ pv_combined = << >>
    /\ pv_reported = << >>
    /\ pv_pc = "idle"
    /\ pv_exc = "none"
    /\ pv_csv = << >>

\* state of one call of speech_parse
VARIABLES
    sp_speech,  \* the INTERVENTION element, <<speech>> once the call began
    sp_pc,      \* "idle", "start", "gathered", "returned", "raised"
    sp_parts,   \* gather_text(para) of every PARA child, in order
    sp_result   \* <<record>> once speech_parse returned

spVars == <<sp_speech, sp_pc, sp_parts, sp_result>>

\* no call of speech_parse under way
SpeechParseIdle ==
    /\ sp_speech = << >>
    /\ sp_pc = "idle"
    /\ sp_parts = << >>
    /\ sp_result = << >>

\* state of one call of summarize_voting_statistics
VARIABLES
    sv_table,    \* the rows of the dataframe: Description and Vote, each
                 \* << >> when the value is missing
    sv_pc,       \* "idle", "start", "grouped", "classified", "printed", "raised"
    sv_grouped,  \* the rows of grouped: Description, For, Against,
                 \* Abstention, Outcome
    sv_out       \* <<total, accepted, rejected>> once the summary is printed

svVars == <<sv_table, sv_pc, sv_grouped, sv_out>>

\* no call of summarize_voting_statistics under way
SummaryIdle ==
    /\ sv_table = << >>
    /\ sv_pc = "idle"
    /\ sv_grouped = << >>
    /\ sv_out = << >>

\* what a download run leaves alone besides its own state
notDownload == <<termVars, splitVars, trVars, durVars, psVars, pvVars, spVars, svVars>>

\* what a call of get_term leaves alone
notTerm == <<vars, splitVars, trVars, durVars, psVars, pvVars, spVars, svVars>>

\* what a call of split_text_into_chunks leaves alone
notSplit == <<vars, termVars, trVars, durVars, psVars, pvVars, spVars, svVars>>

\* what a call of translate_text leaves alone
notTranslate == <<vars, termVars, splitVars, durVars, psVars, pvVars, spVars, svVars>>

\* what a call of calculate_duration leaves alone
notDuration == <<vars, termVars, splitVars, trVars, psVars, pvVars, spVars, svVars>>

\* what a call of parse_speeches leaves alone
notSpeeches == <<vars, termVars, splitVars, trVars, durVars, pvVars, spVars, svVars>>

\* what a call of parse_votings leaves alone
notVotes == <<vars, termVars, splitVars, trVars, durVars, psVars, spVars, svVars>>

\* what a call of speech_parse leaves alone
notSpeechParse == <<vars, termVars, splitVars, trVars, durVars, psVars, pvVars, svVars>>

\* what a call of summarize_voting_statistics leaves alone
notSummary == <<vars, termVars, splitVars, trVars, durVars, psVars, pvVars, spVars>>

Active == pc \in {"loop", "got", "saved"}

cur == dates[idx]

date_str == strftime(cur)

\* every row written so far, whether or not it has reached the file
AllRows == logFile \o buf

Init ==
    /\ kind \in {"speech", "voting"}
    /\ \/ logExists = FALSE /\ logFile = << >>
       \/ logExists = TRUE /\ \E h \in BadHeaders : logFile = <<h>>
    /\ rawFiles = << >>
    /\ pc = "idle"
    /\ range = << >>
    /\ dates = << >>
    /\ idx = 0
    /\ log_df = EmptyDF
    /\ buf = << >>
    /\ resp = NoResp
    /\ runs = 0
    /\ lastRun = "none"
    /\ exc = "none"
    /\ logAtStart = << >>
    /\ undelayed = FALSE
    /\ TermIdle
    /\ SplitIdle
    /\ TranslateIdle
    /\ DurationIdle
    /\ SpeechesIdle
    /\ VotesIdle
    /\ SpeechParseIdle
    /\ SummaryIdle

\* the downloaders at rest
DownloadIdle ==
    /\ kind = "speech"
    /\ logExists = FALSE
    /\ logFile = << >>
    /\ rawFiles = << >>
    /\ pc = "idle"
    /\ range = << >>
    /\ dates = << >>
    /\ idx = 0
    /\ log_df = EmptyDF
    /\ buf = << >>
    /\ resp = NoResp
    /\ runs = 0
    /\ lastRun = "none"
    /\ exc = "none"
    /\ logAtStart = << >>
    /\ undelayed = FALSE

\* the run is over: its local state is gone
EndRun(how) ==
    /\ pc' = "idle"
    /\ lastRun' = how
    /\ range' = << >>
    /\ dates' = << >>
    /\ idx' = 0
    /\ log_df' = EmptyDF
    /\ buf' = << >>
    /\ resp' = NoResp
    /\ logAtStart' = << >>
    /\ undelayed' = FALSE

\* log_writer.writerow(row), then on to the next date
AppendRowAndAdvance(row) ==
    /\ \E w \in WriteRow(logFile, buf, row) : logFile' = w.file /\ buf' = w.buf
    /\ idx' = idx + 1
    /\ pc' = "loop"
    /\ resp' = NoResp

\* the raw-document directory after file name gets content
WriteFile(files, name, content) ==
    [n \in DOMAIN files \cup {name} |-> IF n = name THEN content ELSE files[n]]

(* ---------------- one run of download_speeches / download_votings ------- *)

\* initialize_log raises on a log file of size 0: the run fails before the
\* log is opened
Download_StartFails ==
    /\ pc = "idle"
    /\ runs < MaxRuns
    /\ logExists /\ read_csv_raises(logFile)
    /\ runs' = runs + 1
    /\ exc' = "EmptyDataError"
    /\ lastRun' = "startfail"
    /\ UNCHANGED <<notDownload, kind, logExists, logFile, rawFiles, pc, range,
                   dates, idx, log_df, buf, resp, logAtStart, undelayed>>

\* a run start that writes the header row whatever the size of the opened file
Download_Start_AlwaysHeader(start_date, end_date) ==
    /\ pc = "idle"
    /\ runs < MaxRuns
    /\ ~(logExists /\ read_csv_raises(logFile))
    /\ runs' = runs + 1
    /\ range' = <<start_date, end_date>>
    /\ dates' = date_range(start_date, end_date)
    /\ log_df' = initialize_log(logExists, logFile)
    /\ logExists' = TRUE
    /\ LET opened == OpenAppend(logExists, logFile)
       IN  /\ logAtStart' = opened
           /\ \E w \in WriteRow(opened, << >>, Header) :
                  logFile' = w.file /\ buf' = w.buf
    /\ idx' = 1
    /\ pc' = "loop"
    /\ lastRun' = "running"
    /\ exc' = "none"
    /\ resp' = NoResp
    /\ undelayed' = FALSE
    /\ UNCHANGED <<notDownload, kind, rawFiles>>

\* the run up to the loop: the date range, the loaded log, the log file opened
\* for appending, the header row written when the file is empty
Download_Start(start_date, end_date) ==
    /\ pc = "idle"
    /\ runs < MaxRuns
    /\ ~(logExists /\ read_csv_raises(logFile))
    /\ runs' = runs + 1
    /\ range' = <<start_date, end_date>>
    /\ dates' = date_range(start_date, end_date)
    /\ log_df' = initialize_log(logExists, logFile)
    /\ logExists' = TRUE
    /\ LET opened == OpenAppend(logExists, logFile)
       IN  /\ logAtStart' = opened
           /\ IF Len(opened) = 0
              THEN \E w \in WriteRow(opened, << >>, Header) :
                       logFile' = w.file /\ buf' = w.buf
              ELSE logFile' = opened /\ buf' = << >>
    /\ idx' = 1
    /\ pc' = "loop"
    /\ lastRun' = "running"
    /\ exc' = "none"
    /\ resp' = NoResp
    /\ undelayed' = FALSE
    /\ UNCHANGED <<notDownload, kind, rawFiles>>

\* a date with a 'Success' or 'Not Found' row in the loaded log: continue
Loop_Skip ==
    /\ pc = "loop"
    /\ idx <= Len(dates)
    /\ IsSkipped(log_df, date_str)
    /\ idx' = idx + 1
    /\ exc' = "none"
    /\ UNCHANGED <<notDownload, kind, logExists, logFile, rawFiles, pc, range,
                   dates, log_df, buf, resp, runs, lastRun, logAtStart,
                   undelayed>>

Handle_TermNotFound_Silent ==
    /\ pc = "loop"
    /\ idx <= Len(dates)
    /\ ~IsSkipped(log_df, date_str)
    /\ get_term(cur) = NoTerm
    /\ idx' = idx + 1
    /\ exc' = "none"
    /\ UNCHANGED <<notDownload, kind, logExists, logFile, rawFiles, pc, range,
                   dates, log_df, buf, resp, runs, lastRun, logAtStart,
                   undelayed>>

Handle_TermNotFound_Fetches ==
    /\ pc = "loop"
    /\ idx <= Len(dates)
    /\ ~IsSkipped(log_df, date_str)
    /\ get_term(cur) = NoTerm
    /\ resp' = [code |-> 404, text |-> "", url |-> ""]
    /\ pc' = "got"
    /\ undelayed' = FALSE
    /\ exc' = "none"
    /\ UNCHANGED <<notDownload, kind, logExists, logFile, rawFiles, range,
                   dates, idx, log_df, buf, runs, lastRun, logAtStart>>

\* get_term found no term: a 'Failed' row, no GET
Handle_TermNotFound ==
    /\ pc = "loop"
    /\ idx <= Len(dates)
    /\ ~IsSkipped(log_df, date_str)
    /\ get_term(cur) = NoTerm
    /\ AppendRowAndAdvance(<<date_str, "Failed", "Term not found">>)
    /\ exc' = "none"
    /\ UNCHANGED <<notDownload, kind, logExists, rawFiles, range, dates,
                   log_df, runs, lastRun, logAtStart, undelayed>>

\* requests.get(build_url(term, date)) answered, and time.sleep(0.1) after it
Handle_Get ==
    /\ pc = "loop"
    /\ idx <= Len(dates)
    /\ ~IsSkipped(log_df, date_str)
    /\ get_term(cur) # NoTerm
    /\ \E code \in Codes, text \in Payloads :
           resp' = [code |-> code, text |-> IF code = 200 THEN text ELSE "",
                    url |-> UrlOf(kind, get_term(cur), cur)]
    /\ pc' = "got"
    /\ undelayed' = FALSE
    /\ exc' = "none"
    /\ UNCHANGED <<notDownload, kind, logExists, logFile, rawFiles, range,
                   dates, idx, log_df, buf, runs, lastRun, logAtStart>>

\* requests.get raised a RequestException, which skips time.sleep(0.1): a
\* 'Request Error' row
Handle_RequestException ==
    /\ pc = "loop"
    /\ idx <= Len(dates)
    /\ ~IsSkipped(log_df, date_str)
    /\ get_term(cur) # NoTerm
    /\ AppendRowAndAdvance(<<date_str, "Request Error", "timed out">>)
    /\ exc' = "RequestException"
    /\ undelayed' = TRUE
    /\ UNCHANGED <<notDownload, kind, logExists, rawFiles, range, dates,
                   log_df, runs, lastRun, logAtStart>>

\* a response that is not 200: 'Not Found' for 404, 'Failed' otherwise
Handle_NotOk ==
    /\ pc = "got"
    /\ resp.code # 200
    /\ AppendRowAndAdvance(<<date_str>> \o Classify(resp.code))
    /\ exc' = "none"
    /\ UNCHANGED <<notDownload, kind, logExists, rawFiles, range, dates,
                   log_df, runs, lastRun, logAtStart, undelayed>>

\* the raw-document directory after an attempt to write the current raw file
AfterSave(res) ==
    LET name == RawName(kind, get_term(cur), date_str)
    IN  IF res = "ok" THEN WriteFile(rawFiles, name, resp.text)
        ELSE IF res = "open_error" THEN rawFiles
        ELSE WriteFile(rawFiles, name, "")

\* 200: save_speech_file / the 'with open(file_path, "w")' block succeeded
Save_Ok ==
    /\ pc = "got"
    /\ resp.code = 200
    /\ rawFiles' = AfterSave("ok")
    /\ pc' = "saved"
    /\ exc' = "none"
    /\ UNCHANGED <<notDownload, kind, logExists, logFile, range, dates, idx,
                   log_df, buf, resp, runs, lastRun, logAtStart, undelayed>>

\* 200 and writing the raw file raised, in download_votings: the except
\* clauses append a 'File Error' or 'Value Error' row and the loop goes on
Save_Fails_Voting ==
    /\ pc = "got"
    /\ resp.code = 200
    /\ kind = "voting"
    /\ \E res \in SaveResults \ {"ok"} :
           /\ rawFiles' = AfterSave(res)
           /\ exc' = SaveException(res)
           /\ AppendRowAndAdvance(<<date_str, SaveErrorStatus(SaveException(res)),
                                    "cannot write">>)
    /\ UNCHANGED <<notDownload, kind, logExists, range, dates, log_df, runs,
                   lastRun, logAtStart, undelayed>>

\* 200 and writing the raw file raised, in download_speeches: handle_download
\* catches only RequestException, so the exception leaves the 'with' block,
\* which closes the log file (the pending rows reach it), and ends the run
Save_Fails_Speech ==
    /\ pc = "got"
    /\ resp.code = 200
    /\ kind = "speech"
    /\ \E res \in SaveResults \ {"ok"} :
           /\ rawFiles' = AfterSave(res)
           /\ exc' = SaveException(res)
    /\ logFile' = logFile \o buf
    /\ EndRun("aborted")
    /\ UNCHANGED <<notDownload, kind, logExists, runs>>

\* after the raw file is written: the 'Success' row
Handle_Success ==
    /\ pc = "saved"
    /\ AppendRowAndAdvance(<<date_str, "Success", "Downloaded">>)
    /\ exc' = "none"
    /\ UNCHANGED <<notDownload, kind, logExists, rawFiles, range, dates,
                   log_df, runs, lastRun, logAtStart, undelayed>>

\* the loop is over: the 'with' block closes the log file
Download_Finish ==
    /\ pc = "loop"
    /\ idx > Len(dates)
    /\ logFile' = logFile \o buf
    /\ EndRun("completed")
    /\ exc' = "none"
    /\ UNCHANGED <<notDownload, kind, logExists, rawFiles, runs>>

\* the process is killed: the pending rows are lost
Kill ==
    /\ Active
    /\ EndRun("killed")
    /\ exc' = "none"
    /\ UNCHANGED <<notDownload, kind, logExists, logFile, rawFiles, runs>>

\* the process is killed while the raw file is open for writing
Kill_DuringSave ==
    /\ pc = "got"
    /\ resp.code = 200
    /\ rawFiles' = AfterSave("write_error")
    /\ EndRun("killed")
    /\ exc' = "none"
    /\ UNCHANGED <<notDownload, kind, logExists, logFile, runs>>

\* KeyboardInterrupt: the exception leaves the 'with' block, which closes the
\* log file
Interrupt ==
    /\ Active
    /\ logFile' = logFile \o buf
    /\ EndRun("interrupted")
    /\ exc' = "KeyboardInterrupt"
    /\ UNCHANGED <<notDownload, kind, logExists, rawFiles, runs>>

Next ==
    \/ Download_StartFails
    \/ \E start_date \in Days, end_date \in Days :
           Download_Start(start_date, end_date)
    \/ Loop_Skip
    \/ Handle_TermNotFound
    \/ Handle_Get
    \/ Handle_RequestException
    \/ Handle_NotOk
    \/ Save_Ok
    \/ Save_Fails_Voting
    \/ Save_Fails_Speech
    \/ Handle_Success
    \/ Download_Finish
    \/ Kill
    \/ Kill_DuringSave
    \/ Interrupt

Spec == Init /\ [][Next]_vars

TypeOK ==
    /\ pc \in {"idle", "loop", "got", "saved"}
    /\ runs \in 0..MaxRuns

(* ---------------- vocabulary of the properties ---------------- *)

\* the log has the header Date,Status,Details
WellFormed(file) == Len(file) >= 1 /\ file[1] = Header

\* positions of the data rows of a date
RowsOf(file, ds) == { i \in 2..Len(file) : file[i][1] = ds }

\* a well-formed log holds a 'Success' or 'Not Found' row for the date
Terminal(file, ds) ==
    /\ WellFormed(file)
    /\ \E i \in RowsOf(file, ds) : file[i][2] \in {"Success", "Not Found"}

\* the date has rows and all of them are 'Failed' or 'Request Error'
OnlyFailedRows(file, ds) ==
    /\ RowsOf(file, ds) # {}
    /\ \A i \in RowsOf(file, ds) : file[i][2] \in {"Failed", "Request Error"}

IsPrefix(s, t) == Len(s) <= Len(t) /\ SubSeq(t, 1, Len(s)) = s

\* this step appends exactly the given row to the rows written so far
Appends(row) == AllRows' = Append(AllRows, row)

\* this step issues an HTTP GET for the current date
IssuesGet == pc = "loop" /\ (pc' = "got" \/ exc' = "RequestException")

\* this step is the process being killed or interrupted from outside
Stopped == lastRun' \in {"killed", "interrupted"}

\* the date the loop has just left
prev == strftime(dates[idx - 1])

RawNameOf(d) == RawName(kind, get_term(d), strftime(d))

(* ---------------- C1 ---------------- *)

\* C1: idempotent resume.  No step of any run issues an HTTP GET for a date
\* for which the log file, with the header Date,Status,Details, holds a
\* 'Success' or 'Not Found' row.
C1_NoGetForTerminalDate ==
    [][IssuesGet => ~Terminal(logFile, date_str)]_vars

\* a later run has passed over a date that was terminal in the log, with no
\* GET and no row
C1_Witness ==
    /\ pc = "loop"
    /\ idx > 1
    /\ runs >= 2
    /\ Terminal(logAtStart, prev)
    /\ AllRows = logAtStart

(* ---------------- C2 ---------------- *)

C3_OtherOutcomes ==
    /\ (pc = "got" /\ resp.code = 404 /\ ~Stopped)
          => (Appends(<<date_str, "Not Found", "URL not found">>)
                /\ rawFiles' = rawFiles)
    /\ (pc = "got" /\ resp.code \notin {200, 404} /\ ~Stopped)
          => (Appends(<<date_str, "Failed", "HTTP " \o ToString(resp.code)>>)
                /\ rawFiles' = rawFiles)
    /\ (pc = "loop" /\ exc' = "RequestException")
          => (Appends(<<date_str, "Request Error", "timed out">>)
                /\ rawFiles' = rawFiles)
    /\ (pc = "saved" /\ ~Stopped)
          => (Appends(<<date_str, "Success", "Downloaded">>)
                /\ rawFiles' = rawFiles)

\* the payload of the response is in the raw file of the current date
PayloadWritten ==
    /\ RawNameOf(cur) \in DOMAIN rawFiles'
    /\ rawFiles'[RawNameOf(cur)] = resp.text
    /\ \A n \in DOMAIN rawFiles \ {RawNameOf(cur)} :
          n \in DOMAIN rawFiles' /\ rawFiles'[n] = rawFiles[n]

\* C3 as stated: a 200 response always has its payload written to the raw
\* file and is followed by a 'Success' row; 404 gives 'Not Found', any other
\* code 'Failed' with 'HTTP <code>', a network exception 'Request Error',
\* each without a raw file.
C3_Original ==
    [][/\ C3_OtherOutcomes
       /\ (pc = "got" /\ resp.code = 200 /\ ~Stopped)
             => (PayloadWritten /\ pc' = "saved" /\ AllRows' = AllRows)]_vars

\* C3 (amended): as C3, except that a 200 response is followed by the
\* 'Success' row only when writing the raw file succeeds; when it raises, no
\* 'Success' row is appended: download_votings appends a 'File Error'
\* (OSError) or 'Value Error' (ValueError) row and goes on, download_speeches
\* appends no row and the run ends.
C3_Classification ==
    [][/\ C3_OtherOutcomes
       /\ (pc = "got" /\ resp.code = 200 /\ ~Stopped)
             => \/ PayloadWritten /\ pc' = "saved" /\ AllRows' = AllRows
                \/ /\ exc' \in {"OSError", "ValueError"}
                   /\ kind = "voting"
                   /\ Appends(<<date_str,
                                IF exc' = "OSError" THEN "File Error"
                                                    ELSE "Value Error",
                                "cannot write">>)
                   /\ pc' = "loop"
                \/ /\ exc' \in {"OSError", "ValueError"}
                   /\ kind = "speech"
                   /\ AllRows' = AllRows
                   /\ lastRun' = "aborted"]_vars

\* a 200 response has been classified: the payload is in the raw file and
\* the 'Success' row is the latest row
C3_Witness ==
    /\ pc = "loop"
    /\ idx > 1
    /\ AllRows[Len(AllRows)] = <<prev, "Success", "Downloaded">>
    /\ RawNameOf(dates[idx - 1]) \in DOMAIN rawFiles
    /\ rawFiles[RawNameOf(dates[idx - 1])] \in Payloads

(* ---------------- C4 ---------------- *)

\* C4: append-only log.  Every step of a run, a kill or an interruption
\* included, leaves the rows the log file holds unchanged and in place, and
\* only adds complete rows after them; during a run the file starts with the
\* rows it held when the run opened it.
C4_AppendOnly ==
    /\ [][logExists =>
            /\ logExists'
            /\ IsPrefix(logFile, logFile')
            /\ \A i \in (Len(logFile) + 1)..Len(logFile') :
                  Len(logFile'[i]) = Len(Header)]_vars
    /\ [](Active => IsPrefix(logAtStart, logFile))

\* a run on a log that held rows was killed after some of its rows had
\* reached the file
C4_Witness ==
    /\ pc = "idle"
    /\ lastRun = "killed"
    /\ runs >= 2
    /\ Len(logFile) >= 3

(* ---------------- C5 ---------------- *)

\* C5: interruption is safe.  After a run was killed or interrupted, the
\* next run starts without failing: its first step reaches the loop over the
\* dates, with every date that is terminal in the log skipped.
C5_NextRunStarts ==
    [][(pc = "idle" /\ lastRun \in {"killed", "interrupted"} /\ runs' = runs + 1)
         => (pc' = "loop"
               /\ \A d \in Days :
                     Terminal(logFile, strftime(d))
                        => IsSkipped(log_df', strftime(d)))]_vars

(* ---------------- C6 ---------------- *)

\* the log file exists and its header lacks the 'Status' or 'Date' column
LacksColumn(file) ==
    /\ Len(file) >= 1
    /\ (\A i \in 1..Len(file[1]) : file[1][i] # "Status")
          \/ (\A i \in 1..Len(file[1]) : file[1][i] # "Date")

\* C6: a log that lacks the 'Status' or 'Date' column is treated as absent.
\* A run that starts on such a log does not fail, and when it completes the
\* log file has the header Date,Status,Details, so that no later run issues
\* a GET for a date that has a 'Success' or 'Not Found' row in the file.
C6_MalformedLogReinitialized ==
    [][/\ (pc = "idle" /\ logExists /\ LacksColumn(logFile) /\ runs' = runs + 1)
             => pc' = "loop"
       /\ (lastRun' = "completed" /\ LacksColumn(logAtStart))
             => WellFormed(logFile')
       /\ IssuesGet
             => ~\E i \in RowsOf(logFile, date_str) :
                     logFile[i][2] \in {"Success", "Not Found"}]_vars

(* ---------------- C7 ---------------- *)

\* the raw file of a date is the same before and after the step
RawUnchanged(n) ==
    /\ (n \in DOMAIN rawFiles) = (n \in DOMAIN rawFiles')
    /\ n \in DOMAIN rawFiles => rawFiles'[n] = rawFiles[n]

C8_FileErrorDoesNotAbort ==
    [][(pc = "got" /\ exc' = "OSError")
         => (Len(AllRows') = Len(AllRows) + 1
               /\ AllRows'[Len(AllRows')][1] = date_str
               /\ pc' = "loop"
               /\ idx' = idx + 1)]_vars

(* ---------------- C9 ---------------- *)

\* the rows below the header row, written or pending
DataRows == IF AllRows = << >> THEN << >> ELSE Tail(AllRows)

\* C9 as stated: every data row has a status in
\* {Success, Not Found, Failed, Request Error, File Error}.
C9_Original ==
    \A i \in 1..Len(DataRows) :
        DataRows[i][2] \in {"Success", "Not Found", "Failed", "Request Error",
                            "File Error"}

\* C9 (amended): every data row has a status in {Success, Not Found, Failed,
\* Request Error, File Error, Value Error}; download_speeches writes only
\* the first four, download_votings also 'File Error' and 'Value Error'.
C9_StatusEnumeration ==
    \A i \in 1..Len(DataRows) :
        /\ DataRows[i][2] \in {"Success", "Not Found", "Failed", "Request Error",
                               "File Error", "Value Error"}
        /\ kind = "speech"
              => DataRows[i][2] \in {"Success", "Not Found", "Failed",
                                     "Request Error"}

\* download_votings has appended a 'Value Error' row and a 'File Error' row
C9_Witness ==
    /\ kind = "voting"
    /\ \E i \in 1..Len(DataRows) : DataRows[i][2] = "Value Error"
    /\ \E i \in 1..Len(DataRows) : DataRows[i][2] = "File Error"

(* ---------------- C10 ---------------- *)

RECURSIVE DaySeqFrom(_, _)
\* the days of the calendar window, ascending
DaySeqFrom(d, n) ==
    IF n = 0 THEN << >> ELSE <<d>> \o DaySeqFrom(NextDay(d), n - 1)

\* the days of [start, end] that are not terminal in the log, ascending
DaysToAttempt(file, start, end) ==
    SelectSeq(DaySeqFrom(FirstDay, NumDays),
              LAMBDA d : DateLE(start, d) /\ DateLE(d, end)
                           /\ ~Terminal(file, strftime(d)))

\* C10: a completed run over [start, end] has appended, after the rows the
\* log held at its start (and the header row when the log was new), exactly
\* one row for every day of the inclusive range that was not terminal in the
\* log at its start, in ascending date order, and no other row; nothing for
\* an empty range.
C10_OneRowPerAttemptedDay ==
    [][lastRun' = "completed" =>
         LET skip == Len(logAtStart) + (IF logAtStart = << >> THEN 1 ELSE 0)
             new == SubSeq(logFile', skip + 1, Len(logFile'))
             want == DaysToAttempt(logAtStart, range[1], range[2])
         IN  /\ IsPrefix(logAtStart, logFile')
             /\ Len(new) = Len(want)
             /\ \A i \in 1..Len(want) : new[i][1] = strftime(want[i])]_vars

\* a run over two days is about to complete: the first day was terminal and
\* got no row, the second got its row
C10_Witness ==
    /\ pc = "loop"
    /\ idx > Len(dates)
    /\ Len(dates) = 2
    /\ Terminal(logAtStart, strftime(dates[1]))
    /\ Len(AllRows) = Len(logAtStart) + 1
    /\ AllRows[Len(AllRows)][1] = strftime(dates[2])

(* ================ the term resolver taken alone ================ *)

\* number of days before and after each end of a window that get_term is
\* called with
TermSpan == 5

\* the days around 2019-07-02, around 2024-07-01/02 and around 2029-07-01
TermDays ==
    DaysFrom(<<2019, 6, 27>>, 2 * TermSpan)
        \cup DaysFrom(<<2024, 6, 27>>, 2 * TermSpan)
        \cup DaysFrom(<<2029, 6, 27>>, 2 * TermSpan)

TermInit ==
    /\ term_date \in TermDays
    /\ term_speech = << >>
    /\ term_voting = << >>
    /\ DownloadIdle
    /\ SplitIdle
    /\ TranslateIdle
    /\ DurationIdle
    /\ SpeechesIdle
    /\ VotesIdle
    /\ SpeechParseIdle
    /\ SummaryIdle

\* a call of speech.get_term(term_date)
Term_Speech ==
    /\ term_speech' = <<get_term(term_date)>>
    /\ UNCHANGED <<notTerm, term_date, term_voting>>

\* a call of voting.get_term(term_date)
Term_Voting ==
    /\ term_voting' = <<get_term_voting(term_date)>>
    /\ UNCHANGED <<notTerm, term_date, term_speech>>

TermNext ==
    \/ Term_Speech
    \/ Term_Voting

TermSpec == TermInit /\ [][TermNext]_termVars

(* ---------------- C11 ---------------- *)

\* a date as the number yyyymmdd
Ymd(d) == d[1] * 10000 + d[2] * 100 + d[3]

InTerm9(d) == 20190702 <= Ymd(d) /\ Ymd(d) <= 20240701

InTerm10(d) == 20240702 <= Ymd(d) /\ Ymd(d) <= 20290701

\* C11: for every date, each get_term returns 9 exactly on 2019-07-02 ..
\* 2024-07-01, 10 exactly on 2024-07-02 .. 2029-07-01 and None otherwise,
\* both ends included; no date lies in both windows; the result of a call is
\* the same whenever it is made, and speech.py and voting.py agree.
C11_TermWindows ==
    /\ ~(InTerm9(term_date) /\ InTerm10(term_date))
    /\ \A r \in {term_speech, term_voting} \ {<< >>} :
           /\ r[1] = 9 <=> InTerm9(term_date)
           /\ r[1] = 10 <=> InTerm10(term_date)
           /\ r[1] = NoTerm <=> ~InTerm9(term_date) /\ ~InTerm10(term_date)
    /\ term_speech # << >> /\ term_voting # << >> => term_speech = term_voting

\* both resolvers called on the last day of term 9
C11_Witness ==
    /\ term_date = <<2024, 7, 1>>
    /\ term_speech = <<9>>
    /\ term_voting = <<9>>

(* ================ split_text_into_chunks ================ *)

\* A text is a sequence of characters.  Positions are counted from 0 as in
\* Python: text[i] is the TLA+ element i + 1.

\* longest text the function is called with
MaxLen == 5

\* largest max_length the function is called with
MaxThreshold == 3

\* the characters of a text: a letter, the space, and a line break (white
\* space that is not the space character)
Chars == {"a", " ", "\n"}

Whitespace == {" ", "\n"}

Texts == UNION { [1..n -> Chars] : n \in 0..MaxLen }

\* text[:k]
SliceTo(text, k) == SubSeq(text, 1, k)

\* text[k:]
SliceFrom(text, k) == SubSeq(text, k + 1, Len(text))

\* text.rfind(' ', 0, end): the highest index below end that holds a space,
\* -1 when there is none
rfind_space(text, end) ==
    LET hits == { i \in 0..(end - 1) : i < Len(text) /\ text[i + 1] = " " }
    IN  IF hits = {} THEN -1
        ELSE CHOOSE i \in hits : \A j \in hits : j <= i

\* a strip that keeps the white space
strip_KeepsWhitespace(text) == text

\* text.strip(): without its leading and its trailing white space
strip(text) ==
    LET keep == { i \in 1..Len(text) : text[i] \notin Whitespace }
    IN  IF keep = {} THEN << >>
        ELSE SubSeq(text, CHOOSE i \in keep : \A j \in keep : i <= j,
                          CHOOSE i \in keep : \A j \in keep : j <= i)

split_index_HardSplitLate(text, max_length) ==
    LET i == rfind_space(text, max_length)
    IN  IF i = -1 THEN max_length + 1 ELSE i

\* split_index of one iteration: the last space before max_length, or
\* max_length when there is none
split_index(text, max_length) ==
    LET i == rfind_space(text, max_length)
    IN  IF i = -1 THEN max_length ELSE i

RECURSIVE Join(_, _)
\* sep.join(parts)
Join(sep, parts) ==
    IF parts = << >> THEN << >>
    ELSE IF Len(parts) = 1 THEN parts[1]
    ELSE parts[1] \o sep \o Join(sep, Tail(parts))

SplitInit ==
    /\ split_input \in Texts
    /\ split_max \in 1..MaxThreshold
    /\ split_text = split_input
    /\ split_chunks = << >>
    /\ split_pc = "loop"
    /\ DownloadIdle
    /\ TermIdle
    /\ TranslateIdle
    /\ DurationIdle
    /\ SpeechesIdle
    /\ VotesIdle
    /\ SpeechParseIdle
    /\ SummaryIdle

\* one iteration of 'while len(text) > max_length'
Split_Iterate ==
    /\ split_pc = "loop"
    /\ Len(split_text) > split_max
    /\ LET k == split_index(split_text, split_max)
       IN  /\ split_chunks' = Append(split_chunks, SliceTo(split_text, k))
           /\ split_text' = strip(SliceFrom(split_text, k))
    /\ UNCHANGED <<notSplit, split_input, split_max, split_pc>>

\* the loop is left: the rest is the last chunk
Split_Return ==
    /\ split_pc = "loop"
    /\ Len(split_text) <= split_max
    /\ split_chunks' = Append(split_chunks, split_text)
    /\ split_pc' = "done"
    /\ UNCHANGED <<notSplit, split_input, split_max, split_text>>

SplitNext ==
    \/ Split_Iterate
    \/ Split_Return

SplitSpec == SplitInit /\ [][SplitNext]_splitVars

(* ---------------- C12 ---------------- *)

\* C12: when split_text_into_chunks has returned, the chunks joined in order
\* with no separator are the input text.
C12_SplitJoinRoundTrip ==
    split_pc = "done" => Join(<< >>, split_chunks) = split_input

(* ---------------- C13 ---------------- *)

\* C13: when split_text_into_chunks has returned (max_length >= 1), no chunk
\* is longer than max_length; a text without white space that is longer than
\* max_length has its first max_length characters as first chunk; a text no
\* longer than max_length comes back as the single chunk equal to it.
C13_ChunkBound ==
    split_pc = "done" =>
        /\ \A i \in 1..Len(split_chunks) : Len(split_chunks[i]) <= split_max
        /\ (/\ Len(split_input) > split_max
            /\ \A i \in 1..Len(split_input) : split_input[i] \notin Whitespace)
               => split_chunks[1] = SubSeq(split_input, 1, split_max)
        /\ Len(split_input) <= split_max => split_chunks = <<split_input>>

\* a run of letters longer than max_length was split, and a short text was
\* returned whole
C13_Witness ==
    /\ split_pc = "done"
    /\ split_input = <<"a", "a", "a", "a", "a">>
    /\ split_max = 2
    /\ Len(split_chunks) = 3

(* ================ translate_text ================ *)

\* the model's 5000: a text longer than this is split into chunks of at most
\* this length
LongText == 2

\* range(3) of translate_chunk
MaxAttempts == 3

\* time.sleep(0.4) after a translation, in tenths of a second
SuccessPause == 4

Backoff_Constant(attempt) == 10

\* time.sleep(2 ** attempt), in tenths of a second
Backoff(attempt) == 10 * 2 ^ attempt

RECURSIVE split_text_into_chunks(_, _)
\* the list split_text_into_chunks returns
split_text_into_chunks(text, max_length) ==
    IF Len(text) > max_length
    THEN LET k == split_index(text, max_length)
         IN  <<SliceTo(text, k)>>
                 \o split_text_into_chunks(strip(SliceFrom(text, k)), max_length)
    ELSE <<text>>

\* what result.text can be for a chunk: the chunk as it is, or another text
TranslationsOf(chunk) == {chunk, <<"E">> \o chunk}

TranslateInit ==
    /\ tr_text \in Texts
    /\ tr_pc = "start"
    /\ tr_lang = "none"
    /\ tr_long = FALSE
    /\ tr_chunks = << >>
    /\ tr_pos = 1
    /\ tr_attempt = 0
    /\ tr_log = << >>
    /\ tr_translated = << >>
    /\ tr_result = << >>
    /\ tr_failing = TRUE
    /\ DownloadIdle
    /\ TermIdle
    /\ SplitIdle
    /\ DurationIdle
    /\ SpeechesIdle
    /\ VotesIdle
    /\ SpeechParseIdle
    /\ SummaryIdle

\* text.strip() == "": the text comes back with flag 0
Translate_Blank ==
    /\ tr_pc = "start"
    /\ strip(tr_text) = << >>
    /\ tr_result' = <<tr_text, 0>>
    /\ tr_pc' = "returned"
    /\ UNCHANGED <<notTranslate, tr_text, tr_lang, tr_long, tr_chunks, tr_pos,
                   tr_attempt, tr_log, tr_translated, tr_failing>>

\* detect(text) raises LangDetectException, which no except clause names
Translate_DetectRaises ==
    /\ tr_pc = "start"
    /\ strip(tr_text) # << >>
    /\ tr_lang' = "raise"
    /\ tr_pc' = "raised"
    /\ UNCHANGED <<notTranslate, tr_text, tr_long, tr_chunks, tr_pos,
                   tr_attempt, tr_log, tr_translated, tr_result, tr_failing>>

\* detect(text) == 'en': return text, 1
Translate_AlreadyEnglish ==
    /\ tr_pc = "start"
    /\ strip(tr_text) # << >>
    /\ tr_lang' = "en"
    /\ tr_result' = <<tr_text, 1>>
    /\ tr_pc' = "returned"
    /\ UNCHANGED <<notTranslate, tr_text, tr_long, tr_chunks, tr_pos,
                   tr_attempt, tr_log, tr_translated, tr_failing>>

\* another language: the text is split when it is long, and translate_chunk
\* is about to be called on the first chunk
Translate_Detect ==
    /\ tr_pc = "start"
    /\ strip(tr_text) # << >>
    /\ tr_lang' = "fr"
    /\ tr_long' = (Len(tr_text) > LongText)
    /\ tr_chunks' = IF Len(tr_text) > LongText
                    THEN split_text_into_chunks(tr_text, LongText)
                    ELSE <<tr_text>>
    /\ tr_pc' = "chunk"
    /\ UNCHANGED <<notTranslate, tr_text, tr_pos, tr_attempt, tr_log,
                   tr_translated, tr_result, tr_failing>>

InChunk == tr_pc = "chunk" /\ tr_pos <= Len(tr_chunks)

chunk == tr_chunks[tr_pos]

\* the log of the chunk with one more call of translator.translate
Logged(did, slept) ==
    (IF tr_attempt = 0 THEN << >> ELSE tr_log)
        \o <<[did |-> did, slept |-> slept]>>

Chunk_Translated_Retries ==
    /\ InChunk
    /\ tr_attempt < MaxAttempts
    /\ tr_log' = Logged("ok", Backoff(tr_attempt))
    /\ tr_attempt' = tr_attempt + 1
    /\ tr_failing' = FALSE
    /\ UNCHANGED <<notTranslate, tr_text, tr_pc, tr_lang, tr_long, tr_chunks,
                   tr_pos, tr_translated, tr_result>>

\* translator.translate returned a text: sleep 0.4 s and return it
Chunk_Translated ==
    /\ InChunk
    /\ tr_attempt < MaxAttempts
    /\ \E out \in TranslationsOf(chunk) :
           tr_translated' = Append(tr_translated, out)
    /\ tr_log' = Logged("ok", SuccessPause)
    /\ tr_pos' = tr_pos + 1
    /\ tr_attempt' = 0
    /\ tr_failing' = FALSE
    /\ UNCHANGED <<notTranslate, tr_text, tr_pc, tr_lang, tr_long, tr_chunks,
                   tr_result>>

\* translator.translate returned nothing usable: on to the next attempt
Chunk_NoResult ==
    /\ InChunk
    /\ tr_attempt < MaxAttempts
    /\ tr_log' = Logged("none", 0)
    /\ tr_attempt' = tr_attempt + 1
    /\ tr_failing' = FALSE
    /\ UNCHANGED <<notTranslate, tr_text, tr_pc, tr_lang, tr_long, tr_chunks,
                   tr_pos, tr_translated, tr_result>>

\* translator.translate raised ConnectionError, TimeoutError or ValueError:
\* sleep, then on to the next attempt
Chunk_Transient ==
    /\ InChunk
    /\ tr_attempt < MaxAttempts
    /\ tr_log' = Logged("transient", Backoff(tr_attempt))
    /\ tr_attempt' = tr_attempt + 1
    /\ UNCHANGED <<notTranslate, tr_text, tr_pc, tr_lang, tr_long, tr_chunks,
                   tr_pos, tr_translated, tr_result, tr_failing>>

\* translator.translate raised another exception: it leaves translate_chunk
\* and translate_text
Chunk_Fatal ==
    /\ InChunk
    /\ tr_attempt < MaxAttempts
    /\ tr_log' = Logged("fatal", 0)
    /\ tr_pc' = "raised"
    /\ tr_failing' = FALSE
    /\ UNCHANGED <<notTranslate, tr_text, tr_lang, tr_long, tr_chunks, tr_pos,
                   tr_attempt, tr_translated, tr_result>>

\* the for loop is over: return chunk
Chunk_GiveUp ==
    /\ InChunk
    /\ tr_attempt = MaxAttempts
    /\ tr_translated' = Append(tr_translated, chunk)
    /\ tr_pos' = tr_pos + 1
    /\ tr_attempt' = 0
    /\ UNCHANGED <<notTranslate, tr_text, tr_pc, tr_lang, tr_long, tr_chunks,
                   tr_log, tr_result, tr_failing>>

\* every chunk is done: the chunks joined with a space and flag 1 for a long
\* text; for a short one flag 1 iff translate_chunk returned another text
Translate_Return ==
    /\ tr_pc = "chunk"
    /\ tr_pos > Len(tr_chunks)
    /\ tr_result' =
           IF tr_long THEN <<Join(<<" ">>, tr_translated), 1>>
           ELSE IF tr_translated[1] # tr_text THEN <<tr_translated[1], 1>>
           ELSE <<tr_text, 0>>
    /\ tr_pc' = "returned"
    /\ UNCHANGED <<notTranslate, tr_text, tr_lang, tr_long, tr_chunks, tr_pos,
                   tr_attempt, tr_log, tr_translated, tr_failing>>

TranslateNext ==
    \/ Translate_Blank
    \/ Translate_DetectRaises
    \/ Translate_AlreadyEnglish
    \/ Translate_Detect
    \/ Chunk_Translated
    \/ Chunk_NoResult
    \/ Chunk_Transient
    \/ Chunk_Fatal
    \/ Chunk_GiveUp
    \/ Translate_Return

TranslateSpec == TranslateInit /\ [][TranslateNext]_trVars

(* ---------------- C14 ---------------- *)

\* the latest chunk was given up: three calls, none of which returned a text
GaveUp ==
    /\ tr_pc \in {"chunk", "returned"}
    /\ tr_attempt = 0
    /\ tr_pos > 1
    /\ Len(tr_log) = 3
    /\ tr_log[3].did # "ok"

\* C14: translate_chunk calls the provider at most 3 times for a chunk; the
\* call number n of a chunk, when it raises ConnectionError, TimeoutError or
\* ValueError, is followed by a sleep of 1, 2, 4 seconds for n = 1, 2, 3;
\* when the three attempts are used up the chunk itself is returned, and
\* nothing is raised.
C14_BoundedRetry ==
    /\ Len(tr_log) <= 3
    /\ \A n \in 1..Len(tr_log) :
           tr_log[n].did = "transient" => tr_log[n].slept = <<10, 20, 40>>[n]
    /\ GaveUp => tr_translated[tr_pos - 1] = tr_chunks[tr_pos - 1]
    /\ tr_pc = "raised" /\ tr_log # << >> =>
           tr_log[Len(tr_log)].did = "fatal"

\* three transient failures in a row, after which the chunk came back
C14_Witness ==
    /\ GaveUp
    /\ \A n \in 1..3 : tr_log[n].did = "transient"
    /\ tr_translated[tr_pos - 1] = tr_chunks[tr_pos - 1]

(* ---------------- C15 ---------------- *)

\* C15: when translate_text has returned with flag 1 the returned text is
\* not the input text (a returned text equal to the input has flag 0).
C15_FlagOnlyIfChanged ==
    tr_pc = "returned" /\ tr_result[2] = 1 => tr_result[1] # tr_text

(* ---------------- C16 ---------------- *)

\* C16: when the detected language is 'en', translate_text returns the input
\* text with flag 0 and translator.translate was never called.
C16_EnglishPassThrough ==
    tr_pc = "returned" /\ tr_lang = "en" =>
        /\ tr_result[1] = tr_text
        /\ tr_result[2] = 0
        /\ tr_log = << >>

(* ---------------- C17 ---------------- *)

\* C17: when the language was detected and every call of
\* translator.translate raised one of the three caught exceptions,
\* translate_text does not raise and returns the input text, whatever its
\* length.
C17_DegradesToOriginal ==
    tr_lang # "raise" /\ tr_failing /\ tr_pc \in {"returned", "raised"} =>
        /\ tr_pc = "returned"
        /\ tr_result[1] = tr_text

(* ================ calculate_duration ================ *)

\* A timestamp string is a sequence of characters.

DigitChars == <<"0", "1", "2", "3", "4", "5", "6", "7", "8", "9">>

IsDigit(c) == \E i \in 1..10 : DigitChars[i] = c

DigitVal(c) == (CHOOSE i \in 1..10 : DigitChars[i] = c) - 1

RECURSIVE Split(_, _)
\* s.split(sep) for a separator of one character
Split(s, sep) ==
    LET at == { i \in 1..Len(s) : s[i] = sep }
    IN  IF at = {} THEN <<s>>
        ELSE LET k == CHOOSE i \in at : \A j \in at : i <= j
             IN  <<SubSeq(s, 1, k - 1)>> \o Split(SubSeq(s, k + 1, Len(s)), sep)

\* strptime raised ValueError
Unparsed == -1

\* calculate_duration returned None
NoDuration == -1

\* one field of '%H:%M:%S': one or two digits that make a number up to max
Field(f, max) ==
    IF Len(f) \in {1, 2} /\ \A i \in 1..Len(f) : IsDigit(f[i])
    THEN LET n == IF Len(f) = 1 THEN DigitVal(f[1])
                  ELSE 10 * DigitVal(f[1]) + DigitVal(f[2])
         IN  IF n <= max THEN n ELSE Unparsed
    ELSE Unparsed

\* datetime.strptime(s, "%H:%M:%S") as seconds since 00:00:00: three fields
\* separated by colons and nothing else; %S matches 60 and 61, which
\* datetime then refuses
strptime(s) ==
    LET f == Split(s, ":")
    IN  IF Len(f) # 3 THEN Unparsed
        ELSE LET h == Field(f[1], 23)
                 mi == Field(f[2], 59)
                 sec == Field(f[3], 61)
             IN  IF h = Unparsed \/ mi = Unparsed \/ sec = Unparsed \/ sec > 59
                 THEN Unparsed
                 ELSE 3600 * h + 60 * mi + sec

\* calculate_duration: (end - start).seconds, the difference modulo one day,
\* and None when strptime raised on either string
calculate_duration(time_start, time_end) ==
    LET start == strptime(Split(time_start, ".")[1])
        end == strptime(Split(time_end, ".")[1])
    IN  IF start = Unparsed \/ end = Unparsed THEN NoDuration
        ELSE (end - start) % 86400

Pad2Chars(n) == <<DigitChars[(n \div 10) + 1], DigitChars[(n % 10) + 1]>>

\* "HH:MM:SS"
FormatTime(h, mi, sec) ==
    Pad2Chars(h) \o <<":">> \o Pad2Chars(mi) \o <<":">> \o Pad2Chars(sec)

\* timestamps of two digits per field, without and with fractional seconds
PlainTimes == { FormatTime(h, mi, sec) : h \in {0, 12, 23}, mi \in {0, 30}, sec \in {0, 20} }

FractionTimes == { t \o <<".", "5", "0", "0">> : t \in PlainTimes }

\* other strings: "", "12:00", "24:00:00", "12:60:00", "12:00:60",
\* "12-00-00", "ab:cd:ef", "12:00:00Z", " 12:00:00", "9:5:7", "12:0:00"
OtherTimes ==
    { << >>,
      <<"1", "2", ":", "0", "0">>,
      <<"2", "4", ":", "0", "0", ":", "0", "0">>,
      <<"1", "2", ":", "6", "0", ":", "0", "0">>,
      <<"1", "2", ":", "0", "0", ":", "6", "0">>,
      <<"1", "2", "-", "0", "0", "-", "0", "0">>,
      <<"a", "b", ":", "c", "d", ":", "e", "f">>,
      <<"1", "2", ":", "0", "0", ":", "0", "0", "Z">>,
      <<" ", "1", "2", ":", "0", "0", ":", "0", "0">>,
      <<"9", ":", "5", ":", "7">>,
      <<"1", "2", ":", "0", ":", "0", "0">> }

TimeStrings == PlainTimes \cup FractionTimes \cup OtherTimes

DurationInit ==
    /\ dur_start \in TimeStrings
    /\ dur_end \in TimeStrings
    /\ dur_result = << >>
    /\ DownloadIdle
    /\ TermIdle
    /\ SplitIdle
    /\ TranslateIdle
    /\ SpeechesIdle
    /\ VotesIdle
    /\ SpeechParseIdle
    /\ SummaryIdle

\* a call of calculate_duration(dur_start, dur_end)
Duration_Call ==
    /\ dur_result' = <<calculate_duration(dur_start, dur_end)>>
    /\ UNCHANGED <<notDuration, dur_start, dur_end>>

DurationNext ==
    \/ Duration_Call

DurationSpec == DurationInit /\ [][DurationNext]_durVars

(* ---------------- C18 ---------------- *)

\* the string without its fractional-seconds suffix, when it has one
Whole(s) ==
    IF \E k \in 1..Len(s) :
           /\ s[k] = "."
           /\ k < Len(s)
           /\ \A i \in (k + 1)..Len(s) : IsDigit(s[i])
    THEN SubSeq(s, 1, (CHOOSE k \in 1..Len(s) : s[k] = ".") - 1)
    ELSE s

\* HH:MM:SS, two digits each, hours up to 23, minutes and seconds up to 59
WellFormedTime(s) ==
    LET w == Whole(s)
    IN  /\ Len(w) = 8
        /\ w[3] = ":" /\ w[6] = ":"
        /\ \A i \in {1, 2, 4, 5, 7, 8} : IsDigit(w[i])
        /\ 10 * DigitVal(w[1]) + DigitVal(w[2]) <= 23
        /\ 10 * DigitVal(w[4]) + DigitVal(w[5]) <= 59
        /\ 10 * DigitVal(w[7]) + DigitVal(w[8]) <= 59

SecondsOfDay(s) ==
    LET w == Whole(s)
    IN  3600 * (10 * DigitVal(w[1]) + DigitVal(w[2]))
            + 60 * (10 * DigitVal(w[4]) + DigitVal(w[5]))
            + 10 * DigitVal(w[7]) + DigitVal(w[8])

\* C18: for two well-formed HH:MM:SS timestamps (a fractional-seconds suffix
\* set aside) calculate_duration returns end minus start in seconds; when
\* either string is malformed it returns None.
C18_Duration ==
    dur_result # << >> =>
        IF WellFormedTime(dur_start) /\ WellFormedTime(dur_end)
        THEN dur_result[1] = SecondsOfDay(dur_end) - SecondsOfDay(dur_start)
        ELSE dur_result[1] = NoDuration

(* ================ parse_speeches ================ *)

\* A speech file is what ET.parse makes of it: read is "ok", or the way
\* reading it fails ("missing": FileNotFoundError, "denied": PermissionError,
\* "syntax": ET.ParseError); chapters are its CHAPTER elements, each with its
\* English title (<< >> when there is none) and its children in document
\* order.  Attribute values and texts are sequences of characters; the
\* VOD-START or VOD-END a NUMERO lacks is the empty sequence.

\* most files in the input directory
MaxFiles == 2

NaNChars == <<"N", "a", "N">>

RECURSIVE SplitOn(_, _)
\* s.split(sep) for a separator of any length
SplitOn(s, sep) ==
    LET n == Len(sep)
        at == { i \in 1..(Len(s) - n + 1) : SubSeq(s, i, i + n - 1) = sep }
    IN  IF at = {} THEN <<s>>
        ELSE LET k == CHOOSE i \in at : \A j \in at : i <= j
             IN  <<SubSeq(s, 1, k - 1)>>
                     \o SplitOn(SubSeq(s, k + n, Len(s)), sep)

NameSeparator == <<" ", "|", " ">>

\* the character U+2013, written by its name
EnDash == "EN DASH"

\* ". – "
NarrationSeparator == <<".", " ", EnDash, " ">>

\* skip_phrases_pattern.match(text): the text begins, whatever the case of its
\* letters, with one of the phrases and a space
skip_phrases_pattern(text) ==
    LET phrases ==
            { <<"o", "n", " ", "b", "e", "h", "a", "l", "f", " ", "o", "f">>,
              <<"e", "n", " ", "n", "o", "m", "b", "r", "e", " ", "d", "e", "l">>,
              <<"a", "u", " ", "n", "o", "m", " ", "d", "u">>,
              <<"a", " ", "n", "o", "m", "e">>,
              <<"n", "a", "m", "e", "n", "s", " ", "d", "e">> }
        upper ==
            ("A" :> "a") @@ ("B" :> "b") @@ ("C" :> "c") @@ ("D" :> "d")
                @@ ("E" :> "e") @@ ("F" :> "f") @@ ("G" :> "g") @@ ("H" :> "h")
                @@ ("I" :> "i") @@ ("J" :> "j") @@ ("K" :> "k") @@ ("L" :> "l")
                @@ ("M" :> "m") @@ ("N" :> "n") @@ ("O" :> "o") @@ ("P" :> "p")
                @@ ("Q" :> "q") @@ ("R" :> "r") @@ ("S" :> "s") @@ ("T" :> "t")
                @@ ("U" :> "u") @@ ("V" :> "v") @@ ("W" :> "w") @@ ("X" :> "x")
                @@ ("Y" :> "y") @@ ("Z" :> "z")
        lower(c) == IF c \in DOMAIN upper THEN upper[c] ELSE c
    IN  \E p \in phrases :
            /\ Len(text) > Len(p)
            /\ \A i \in 1..Len(p) : lower(text[i]) = p[i]
            /\ text[Len(p) + 1] = " "

\* note_pattern.match(text): "(" at the start, ")" at the end, and no line
\* break in between ('.' matches none)
note_pattern(text) ==
    /\ Len(text) >= 2
    /\ text[1] = "("
    /\ text[Len(text)] = ")"
    /\ \A i \in 2..(Len(text) - 1) : text[i] # "\n"

\* An element of a paragraph subtree is [tag, text, children, tail]; a text
\* or tail that is None or "" is the empty sequence.

RECURSIVE gather_text(_)
RECURSIVE GatherParts(_)
\* the loop 'for child in element': the parts it appends.  An EMPHAS child
\* whose text matches a pattern is left by 'continue', before its subtree and
\* its tail are appended.
GatherParts(children) ==
    IF children = << >> THEN << >>
    ELSE LET child == Head(children)
             skipped == /\ child.tag = "EMPHAS"
                        /\ child.text # << >>
                        /\ \/ skip_phrases_pattern(strip(child.text))
                           \/ note_pattern(strip(child.text))
         IN  (IF skipped THEN << >>
              ELSE <<gather_text(child)>>
                       \o (IF child.tail # << >> THEN <<strip(child.tail)>> ELSE << >>))
                 \o GatherParts(Tail(children))

\* " ".join(filter(None, parts))
gather_text(element) ==
    Join(<<" ">>,
         SelectSeq((IF element.text # << >> THEN <<strip(element.text)>> ELSE << >>)
                       \o GatherParts(element.children),
                   LAMBDA part : part # << >>))

\* text.find(sep) + 1: where sep first begins in text, 0 when nowhere
find(text, sep) ==
    LET n == Len(sep)
        at == { i \in 1..(Len(text) - n + 1) : SubSeq(text, i, i + n - 1) = sep }
    IN  IF at = {} THEN 0 ELSE CHOOSE i \in at : \A j \in at : i <= j

\* text.lstrip(chars)
lstrip(text, chars) ==
    LET keep == { i \in 1..Len(text) : text[i] \notin chars }
    IN  IF keep = {} THEN << >>
        ELSE SubSeq(text, CHOOSE i \in keep : \A j \in keep : i <= j, Len(text))

narration_strip_NoSplit(text) == strip(lstrip(text, {EnDash, " "}))

\* if ". – " in text: text = text.split(". – ", 1)[1].strip()
\* text = text.lstrip("– ").strip()
narration_strip(text) ==
    LET k == find(text, NarrationSeparator)
        rest == IF k > 0
                THEN strip(SubSeq(text, k + Len(NarrationSeparator), Len(text)))
                ELSE text
    IN  strip(lstrip(rest, {EnDash, " "}))

\* An INTERVENTION element has its ORATEUR children (each the attributes
\* MEPID, PP, SPEAKER_TYPE and LIB, << >> when absent and <<value>> otherwise)
\* and its PARA children.

\* the text_parts of speech_parse: gather_text of every PARA that has any
text_parts(speech) ==
    SelectSeq([i \in 1..Len(speech.paras) |-> gather_text(speech.paras[i])],
              LAMBDA part : part # << >>)

\* speech_parse: the record of one INTERVENTION, or the exception it raises.
\* 'last_name, first_name = LIB.split(" | ")' raises ValueError unless the
\* split gives two parts.
speech_parse(speech, date, time_start, time_end, topic) ==
    LET found == speech.orateurs # << >>
        orateur == Head(speech.orateurs)
        lib == IF found /\ orateur.LIB # << >> THEN orateur.LIB[1] ELSE NaNChars
        parts == SplitOn(lib, NameSeparator)
        named == found /\ lib # NaNChars /\ Len(parts) > 1
    IN  IF named /\ Len(parts) # 2
        THEN [exc |-> "ValueError", record |-> << >>]
        ELSE [exc |-> "none",
              record |-> <<[Date |-> date,
                            TimeStart |-> time_start,
                            TimeEnd |-> time_end,
                            Duration |-> calculate_duration(time_start, time_end),
                            Topic |-> topic,
                            Text |-> narration_strip(Join(<<" ">>, text_parts(speech))),
                            MEPID |-> IF found /\ orateur.MEPID # << >>
                                      THEN orateur.MEPID[1] ELSE NaNChars,
                            SpeakerName |-> IF named
                                            THEN parts[1] \o <<" ">> \o parts[2]
                                            ELSE lib,
                            Party |-> IF found /\ orateur.PP # << >>
                                      THEN orateur.PP[1] ELSE NaNChars,
                            SpeakerType |-> IF found /\ orateur.SPEAKER_TYPE # << >>
                                            THEN orateur.SPEAKER_TYPE[1]
                                            ELSE NaNChars]>>]

NoContext == [date |-> << >>, start |-> << >>, end |-> << >>]

RECURSIVE WalkChapter(_, _, _, _)
\* the loop 'for elem in chapter': the records appended to acc, and the
\* exception that ended the loop ("none" when it ran to its end).
\* 'current_date, current_time_start = ...split("T")' raises ValueError
\* unless the split gives two parts; '...split("T")[1]' raises IndexError
\* when it gives one.
WalkChapter(elems, ctx, topic, acc) ==
    IF elems = << >> THEN [records |-> acc, exc |-> "none"]
    ELSE LET elem == Head(elems)
         IN  IF elem.tag = "NUMERO" /\ elem.start # << >> /\ elem.end # << >>
             THEN LET s == Split(elem.start, "T")
                      e == Split(elem.end, "T")
                  IN  IF Len(s) # 2 THEN [records |-> acc, exc |-> "ValueError"]
                      ELSE IF Len(e) < 2
                      THEN [records |-> acc, exc |-> "IndexError"]
                      ELSE WalkChapter(Tail(elems),
                                       [date |-> s[1], start |-> s[2], end |-> e[2]],
                                       topic, acc)
             ELSE IF /\ elem.tag = "INTERVENTION"
                     /\ ctx.date # << >> /\ ctx.start # << >> /\ ctx.end # << >>
             THEN LET r == speech_parse(elem, ctx.date, ctx.start, ctx.end, topic)
                  IN  IF r.exc # "none" THEN [records |-> acc, exc |-> r.exc]
                      ELSE WalkChapter(Tail(elems), ctx, topic, acc \o r.record)
             ELSE WalkChapter(Tail(elems), ctx, topic, acc)

UnknownTopic == <<"U", "n", "k", "n", "o", "w", "n", " ", "T", "o", "p", "i", "c">>

RECURSIVE WalkChapters(_, _)
\* the loop 'for chapter in root.findall(".//CHAPTER")'
WalkChapters(chapters, acc) ==
    IF chapters = << >> THEN [records |-> acc, exc |-> "none"]
    ELSE LET chapter == Head(chapters)
             topic == IF chapter.title # << >> THEN chapter.title ELSE UnknownTopic
             r == WalkChapter(chapter.elems, NoContext, topic, acc)
         IN  IF r.exc # "none" THEN r ELSE WalkChapters(Tail(chapters), r.records)

\* the body of the try block for one file: combined_data afterwards, and the
\* exception that left the block ("none" when it ran to its end)
ParseSpeechFile(file, combined_data) ==
    IF file.read = "missing"
    THEN [records |-> combined_data, exc |-> "FileNotFoundError"]
    ELSE IF file.read = "denied"
    THEN [records |-> combined_data, exc |-> "PermissionError"]
    ELSE IF file.read = "syntax"
    THEN [records |-> combined_data, exc |-> "ParseError"]
    ELSE WalkChapters(file.chapters, combined_data)

\* except (FileNotFoundError, ET.ParseError, AttributeError)
SpeechCaught == {"FileNotFoundError", "ParseError", "AttributeError"}

Date1 == <<"2", "0", "2", "4", "-", "0", "1", "-", "1", "5">>

\* the files of the input directory: two that parse, one without timing
\* marker, three that cannot be read or parsed, three whose markers or
\* display names are malformed (the last after a well-formed intervention),
\* one of two chapters (an intervention before the first marker, two markers,
\* a NUMERO without VOD-END between them, and a second chapter whose
\* intervention comes before its marker), and one whose marker has nothing
\* after the "T" of VOD-START
SpeechDocs ==
    LET NUMERO(start, end) ==
            [tag |-> "NUMERO", start |-> start, end |-> end,
             orateurs |-> << >>, paras |-> << >>]
        HelloWorld == <<"H", "e", "l", "l", "o", " ", "w", "o", "r", "l", "d", ".">>
        INTERVENTION(lib) ==
            [tag |-> "INTERVENTION", start |-> << >>, end |-> << >>,
             orateurs |-> <<[MEPID |-> << >>, PP |-> << >>,
                             SPEAKER_TYPE |-> << >>, LIB |-> <<lib>>]>>,
             paras |-> <<[tag |-> "PARA", text |-> HelloWorld,
                          children |-> << >>, tail |-> << >>]>>]
        \* "<date>T<time>", and "<date> <time>" without the "T"
        Stamp(time) == Date1 \o <<"T">> \o time
        StampNoT(time) == Date1 \o <<" ">> \o time
        Noon == FormatTime(12, 0, 0)
        FivePast == FormatTime(12, 5, 0)
        TenPast == FormatTime(12, 10, 0)
        Marker == NUMERO(Stamp(Noon), Stamp(FivePast))
        LibDoeJane == <<"D", "o", "e", " ", "|", " ", "J", "a", "n", "e">>
        LibTwoBars == <<"D", "o", "e", " ", "|", " ", "J", " ", "|", " ", "K">>
        LibPlain == <<"P", "r", "e", "s">>
        Debate == <<"D", "e", "b", "a", "t", "e">>
        File(title, elems) ==
            [read |-> "ok", chapters |-> <<[title |-> title, elems |-> elems]>>]
        Unreadable(how) == [read |-> how, chapters |-> << >>]
        TwoChapters ==
            [read |-> "ok",
             chapters |->
                 <<[title |-> Debate,
                    elems |-> <<INTERVENTION(LibPlain),
                                Marker,
                                INTERVENTION(LibDoeJane),
                                NUMERO(Stamp(FivePast), << >>),
                                INTERVENTION(LibPlain),
                                NUMERO(Stamp(FivePast), Stamp(TenPast)),
                                INTERVENTION(LibDoeJane)>>],
                   [title |-> << >>,
                    elems |-> <<INTERVENTION(LibPlain),
                                NUMERO(Stamp(TenPast), Stamp(TenPast)),
                                INTERVENTION(LibPlain)>>]>>]
    IN  { File(Debate, <<Marker, INTERVENTION(LibDoeJane)>>),
          TwoChapters,
          File(Debate, <<NUMERO(Date1 \o <<"T">>, Stamp(FivePast)),
                         INTERVENTION(LibDoeJane)>>),
          File(<< >>, <<Marker, INTERVENTION(LibPlain)>>),
          File(Debate, <<INTERVENTION(LibDoeJane)>>),
          Unreadable("missing"),
          Unreadable("denied"),
          Unreadable("syntax"),
          File(Debate, <<NUMERO(StampNoT(Noon), Stamp(FivePast)),
                         INTERVENTION(LibDoeJane)>>),
          File(Debate, <<NUMERO(Stamp(Noon), StampNoT(FivePast)),
                         INTERVENTION(LibDoeJane)>>),
          File(Debate, <<Marker, INTERVENTION(LibPlain),
                         INTERVENTION(LibTwoBars)>>) }

\* name of the file at a position of the directory listing
FileName(i) == "f" \o ToString(i) \o ".xml"

SpeechesInit ==
    /\ ps_dir \in UNION { [1..n -> SpeechDocs] : n \in 0..MaxFiles }
    /\ ps_idx = 1
    /\ ps_combined = << >>
    /\ ps_reported = << >>
    /\ ps_pc = "loop"
    /\ ps_exc = "none"
    /\ ps_csv = << >>
    /\ DownloadIdle
    /\ TermIdle
    /\ SplitIdle
    /\ TranslateIdle
    /\ DurationIdle
    /\ VotesIdle
    /\ SpeechParseIdle
    /\ SummaryIdle

ps_file == ps_dir[ps_idx]

\* the try block ran to its end for the file
Speeches_File ==
    /\ ps_pc = "loop"
    /\ ps_idx <= Len(ps_dir)
    /\ LET r == ParseSpeechFile(ps_file, ps_combined)
       IN  /\ r.exc = "none"
           /\ ps_combined' = r.records
    /\ ps_idx' = ps_idx + 1
    /\ UNCHANGED <<notSpeeches, ps_dir, ps_reported, ps_pc, ps_exc, ps_csv>>

\* the try block raised an exception the except clause names: the error is
\* printed with the file name and the loop goes on
Speeches_FileSkipped ==
    /\ ps_pc = "loop"
    /\ ps_idx <= Len(ps_dir)
    /\ LET r == ParseSpeechFile(ps_file, ps_combined)
       IN  /\ r.exc \in SpeechCaught
           /\ ps_combined' = r.records
    /\ ps_reported' = Append(ps_reported, FileName(ps_idx))
    /\ ps_idx' = ps_idx + 1
    /\ UNCHANGED <<notSpeeches, ps_dir, ps_pc, ps_exc, ps_csv>>

\* the try block raised another exception: it leaves parse_speeches
Speeches_FileRaises ==
    /\ ps_pc = "loop"
    /\ ps_idx <= Len(ps_dir)
    /\ LET r == ParseSpeechFile(ps_file, ps_combined)
       IN  /\ r.exc \notin SpeechCaught \cup {"none"}
           /\ ps_combined' = r.records
           /\ ps_exc' = r.exc
    /\ ps_pc' = "raised"
    /\ UNCHANGED <<notSpeeches, ps_dir, ps_idx, ps_reported, ps_csv>>

\* after the loop, with records: the combined CSV is written
Speeches_Save ==
    /\ ps_pc = "loop"
    /\ ps_idx > Len(ps_dir)
    /\ ps_combined # << >>
    /\ ps_csv' = <<ps_combined>>
    /\ ps_pc' = "done"
    /\ UNCHANGED <<notSpeeches, ps_dir, ps_idx, ps_combined, ps_reported, ps_exc>>

\* after the loop, without records: no CSV is created
Speeches_NoData ==
    /\ ps_pc = "loop"
    /\ ps_idx > Len(ps_dir)
    /\ ps_combined = << >>
    /\ ps_pc' = "done"
    /\ UNCHANGED <<notSpeeches, ps_dir, ps_idx, ps_combined, ps_reported, ps_exc,
                   ps_csv>>

SpeechesNext ==
    \/ Speeches_File
    \/ Speeches_FileSkipped
    \/ Speeches_FileRaises
    \/ Speeches_Save
    \/ Speeches_NoData

SpeechesSpec == SpeechesInit /\ [][SpeechesNext]_psVars

(* ---------------- C19 ---------------- *)

Range(s) == { s[i] : i \in 1..Len(s) }

\* processing the file taken alone raises
SpeechFileFails(file) == ParseSpeechFile(file, << >>).exc # "none"

\* C19: parse_speeches is never left by an exception raised while a file is
\* processed; when it is done, every file whose processing failed was
\* reported with its name, and all records of every other file are in the
\* combined data.
C19_SpeechBatchNeverAborts ==
    /\ ps_pc # "raised"
    /\ ps_pc = "done" =>
           \A i \in 1..Len(ps_dir) :
               IF SpeechFileFails(ps_dir[i])
               THEN FileName(i) \in Range(ps_reported)
               ELSE Range(ParseSpeechFile(ps_dir[i], << >>).records)
                        \subseteq Range(ps_combined)

(* ================ parse_votings ================ *)

\* A voting file is what ET.parse makes of it: read is "ok", or the way
\* reading it fails ("missing": FileNotFoundError, "denied": PermissionError,
\* "syntax": ET.ParseError); date is the Sitting.Date attribute of the root
\* and roll_calls its RollCallVote.Result elements, each with its children in
\* document order.  An attribute that may be absent is << >> or <<value>>; an
\* element text that is None or "" is the empty sequence.

\* dict.get(key, default)
AttrGet(attr, default) == IF attr = << >> THEN default ELSE attr[1]

\* 'text or default'
TextOr(text, default) == IF text = << >> THEN default ELSE text

UnknownDate == <<"U", "n", "k", "n", "o", "w", "n", " ", "D", "a", "t", "e">>

NoDescription ==
    <<"N", "o", " ", "D", "e", "s", "c", "r", "i", "p", "t", "i", "o", "n">>

DescriptionTag ==
    <<"R", "o", "l", "l", "C", "a", "l", "l", "V", "o", "t", "e", ".",
      "D", "e", "s", "c", "r", "i", "p", "t", "i", "o", "n", ".",
      "T", "e", "x", "t">>

\* result.tag.split(".")[-1]
vote_type(tag) == LET parts == Split(tag, ".") IN parts[Len(parts)]

RECURSIVE MemberRows(_, _, _, _, _)
\* the loop 'for member in group.findall("PoliticalGroup.Member.Name")'
MemberRows(members, session_date, description, vote, group_id) ==
    IF members = << >> THEN << >>
    ELSE <<[Date |-> session_date,
            Description |-> description,
            Vote |-> vote,
            PoliticalGroup |-> group_id,
            MEP_ID |-> AttrGet(Head(members).pers_id, NaNChars),
            Name |-> TextOr(Head(members).name, NaNChars)]>>
             \o MemberRows(Tail(members), session_date, description, vote, group_id)

RECURSIVE GroupRows(_, _, _, _)
\* the loop 'for group in result.findall("Result.PoliticalGroup.List")'
GroupRows(groups, session_date, description, vote) ==
    IF groups = << >> THEN << >>
    ELSE MemberRows(Head(groups).members, session_date, description, vote,
                    AttrGet(Head(groups).identifier, NaNChars))
             \o GroupRows(Tail(groups), session_date, description, vote)

RECURSIVE ResultRows(_, _, _)
\* the loop 'for result in roll_call', over every child of the roll call
ResultRows(children, session_date, description) ==
    IF children = << >> THEN << >>
    ELSE GroupRows(Head(children).groups, session_date, description,
                   vote_type(Head(children).tag))
             \o ResultRows(Tail(children), session_date, description)

\* roll_call.find('RollCallVote.Description.Text'): the first such child,
\* << >> when there is none
FindDescription(roll_call) ==
    LET at == { i \in 1..Len(roll_call) : roll_call[i].tag = DescriptionTag }
    IN  IF at = {} THEN << >>
        ELSE <<roll_call[CHOOSE i \in at : \A j \in at : i <= j]>>

RECURSIVE RollCallRows(_, _, _)
\* the loop 'for roll_call in root.findall(...)': file_data, and the
\* exception that ended the loop ("none" when it ran to its end).  '.text'
\* of the None that find returns raises AttributeError.
RollCallRows(roll_calls, session_date, file_data) ==
    IF roll_calls = << >> THEN [records |-> file_data, exc |-> "none"]
    ELSE LET roll_call == Head(roll_calls)
             found == FindDescription(roll_call)
         IN  IF found = << >>
             THEN [records |-> file_data, exc |-> "AttributeError"]
             ELSE RollCallRows(Tail(roll_calls), session_date,
                      file_data \o ResultRows(roll_call, session_date,
                                              TextOr(found[1].text, NoDescription)))

\* parse_single_file: the list it returns, or the exception it raises
parse_single_file(file) ==
    IF file.read = "missing"
    THEN [records |-> << >>, exc |-> "FileNotFoundError"]
    ELSE IF file.read = "denied"
    THEN [records |-> << >>, exc |-> "PermissionError"]
    ELSE IF file.read = "syntax"
    THEN [records |-> << >>, exc |-> "ParseError"]
    ELSE RollCallRows(file.roll_calls, AttrGet(file.date, UnknownDate), << >>)

\* the subclasses of OSError that opening a file raises
OSErrors == {"FileNotFoundError", "PermissionError"}

\* except ET.ParseError ... except OSError
VoteCaught == {"ParseError"} \cup OSErrors

\* the files of the input directory: five that parse (one with an empty
\* description, no sitting date and defaults; one without roll call; the
\* document "Test Motion" with one "For" block, one group and the member 123,
\* "Jane Doe"; one with two roll calls, several blocks, groups and members),
\* three that cannot be read or parsed, and two with a roll call that lacks
\* its description (the second after a well-formed roll call).  A child of a
\* roll call has its tag, its text and its Result.PoliticalGroup.List children.
VoteDocs ==
    LET ResultForTag == <<"R", "e", "s", "u", "l", "t", ".", "F", "o", "r">>
        ResultAgainstTag ==
            <<"R", "e", "s", "u", "l", "t", ".", "A", "g", "a", "i", "n", "s", "t">>
        Description(text) == [tag |-> DescriptionTag, text |-> text, groups |-> << >>]
        Block(tag, groups) == [tag |-> tag, text |-> << >>, groups |-> groups]
        Group(identifier, members) == [identifier |-> identifier, members |-> members]
        Member(pers_id, name) == [pers_id |-> pers_id, name |-> name]
        PPE == <<"P", "P", "E">>
        SD == <<"S", "D">>
        Doe == <<"D", "o", "e">>
        Roe == <<"R", "o", "e">>
        JaneDoe == <<"J", "a", "n", "e", " ", "D", "o", "e">>
        TestMotion == <<"T", "e", "s", "t", " ", "M", "o", "t", "i", "o", "n">>
        RollCall == <<Description(<<"B", "u", "d", "g", "e", "t">>),
                      Block(ResultForTag, <<Group(<<PPE>>, <<Member(<<<<"7">>>>, Doe)>>)>>)>>
        RollCallBare ==
            <<Block(ResultAgainstTag, <<Group(<<PPE>>, <<Member(<<<<"7">>>>, Doe)>>)>>)>>
        File(date, roll_calls) ==
            [read |-> "ok", date |-> date, roll_calls |-> roll_calls]
        Unreadable(how) == [read |-> how, date |-> << >>, roll_calls |-> << >>]
    IN  { File(<<Date1>>, <<RollCall>>),
          File(<< >>, <<<<Description(<< >>),
                          Block(ResultAgainstTag,
                                <<Group(<< >>, <<Member(<< >>, << >>)>>)>>)>>>>),
          File(<<Date1>>, << >>),
          File(<<Date1>>,
               <<<<Description(TestMotion),
                   Block(ResultForTag,
                         <<Group(<<PPE>>,
                                 <<Member(<<<<"1", "2", "3">>>>, JaneDoe)>>)>>)>>>>),
          File(<<Date1>>,
               <<<<Description(TestMotion),
                   Block(ResultForTag,
                         <<Group(<<PPE>>, <<Member(<<<<"7">>>>, Doe),
                                            Member(<<<<"8">>>>, Roe)>>),
                           Group(<<SD>>, << >>)>>),
                   Block(ResultAgainstTag,
                         <<Group(<<SD>>, <<Member(<<<<"7">>>>, Doe)>>)>>)>>,
                 <<Description(<< >>), Block(ResultForTag, << >>)>>,
                 RollCall>>),
          Unreadable("missing"),
          Unreadable("denied"),
          Unreadable("syntax"),
          File(<<Date1>>, <<RollCallBare>>),
          File(<<Date1>>, <<RollCall, RollCallBare>>) }

VotesInit ==
    /\ pv_dir \in UNION { [1..n -> VoteDocs] : n \in 0..MaxFiles }
    /\ pv_idx = 1
    /\ pv_combined = << >>
    /\ pv_reported = << >>
    /\ pv_pc = "loop"
    /\ pv_exc = "none"
    /\ pv_csv = << >>
    /\ DownloadIdle
    /\ TermIdle
    /\ SplitIdle
    /\ TranslateIdle
    /\ DurationIdle
    /\ SpeechesIdle
    /\ SpeechParseIdle
    /\ SummaryIdle

pv_file == pv_dir[pv_idx]

Votes_File_Prepends ==
    /\ pv_pc = "loop"
    /\ pv_idx <= Len(pv_dir)
    /\ LET r == parse_single_file(pv_file)
       IN  /\ r.exc = "none"
           /\ pv_combined' = r.records \o pv_combined
    /\ pv_idx' = pv_idx + 1
    /\ UNCHANGED <<notVotes, pv_dir, pv_reported, pv_pc, pv_exc, pv_csv>>

\* combined_data.extend(parse_single_file(file_path))
Votes_File ==
    /\ pv_pc = "loop"
    /\ pv_idx <= Len(pv_dir)
    /\ LET r == parse_single_file(pv_file)
       IN  /\ r.exc = "none"
           /\ pv_combined' = pv_combined \o r.records
    /\ pv_idx' = pv_idx + 1
    /\ UNCHANGED <<notVotes, pv_dir, pv_reported, pv_pc, pv_exc, pv_csv>>

\* parse_single_file raised ET.ParseError or an OSError: the error is printed
\* with the file name and the loop goes on
Votes_FileSkipped ==
    /\ pv_pc = "loop"
    /\ pv_idx <= Len(pv_dir)
    /\ parse_single_file(pv_file).exc \in VoteCaught
    /\ pv_reported' = Append(pv_reported, FileName(pv_idx))
    /\ pv_idx' = pv_idx + 1
    /\ UNCHANGED <<notVotes, pv_dir, pv_combined, pv_pc, pv_exc, pv_csv>>

\* parse_single_file raised another exception: it leaves parse_votings
Votes_FileRaises ==
    /\ pv_pc = "loop"
    /\ pv_idx <= Len(pv_dir)
    /\ LET r == parse_single_file(pv_file)
       IN  /\ r.exc \notin VoteCaught \cup {"none"}
           /\ pv_exc' = r.exc
    /\ pv_pc' = "raised"
    /\ UNCHANGED <<notVotes, pv_dir, pv_idx, pv_combined, pv_reported, pv_csv>>

\* after the loop, with records: save_to_csv
Votes_Save ==
    /\ pv_pc = "loop"
    /\ pv_idx > Len(pv_dir)
    /\ pv_combined # << >>
    /\ pv_csv' = <<pv_combined>>
    /\ pv_pc' = "done"
    /\ UNCHANGED <<notVotes, pv_dir, pv_idx, pv_combined, pv_reported, pv_exc>>

\* after the loop, without records: no CSV is created
Votes_NoData ==
    /\ pv_pc = "loop"
    /\ pv_idx > Len(pv_dir)
    /\ pv_combined = << >>
    /\ pv_pc' = "done"
    /\ UNCHANGED <<notVotes, pv_dir, pv_idx, pv_combined, pv_reported, pv_exc,
                   pv_csv>>

VotesNext ==
    \/ Votes_File
    \/ Votes_FileSkipped
    \/ Votes_FileRaises
    \/ Votes_Save
    \/ Votes_NoData

VotesSpec == VotesInit /\ [][VotesNext]_pvVars

(* ---------------- C20 ---------------- *)

\* parse_single_file raises on the file
VoteFileFails(file) == parse_single_file(file).exc # "none"

\* C20: parse_votings is never left by an exception parse_single_file raised;
\* when it is done, every file parse_single_file failed on was reported, and
\* the rows of every other file are in the combined data and, when there are
\* any, in the combined output.
C20_VoteBatchNeverAborts ==
    /\ pv_pc # "raised"
    /\ pv_pc = "done" =>
           /\ \A i \in 1..Len(pv_dir) :
                  IF VoteFileFails(pv_dir[i])
                  THEN FileName(i) \in Range(pv_reported)
                  ELSE Range(parse_single_file(pv_dir[i]).records)
                           \subseteq Range(pv_combined)
           /\ pv_combined # << >> => pv_csv = <<pv_combined>>

(* ---------------- C21 ---------------- *)

\* the member entries of a file: <<b, c, g, m>> is member m of political-group
\* list g of child c of roll-call block b
VoteEntries(file) ==
    { e \in (1..Len(file.roll_calls)) \X (1..4) \X (1..4) \X (1..4) :
        /\ e[2] <= Len(file.roll_calls[e[1]])
        /\ e[3] <= Len(file.roll_calls[e[1]][e[2]].groups)
        /\ e[4] <= Len(file.roll_calls[e[1]][e[2]].groups[e[3]].members) }

\* the text after the last "." of a tag
LastSegment(tag) ==
    LET dots == { i \in 1..Len(tag) : tag[i] = "." }
        last == IF dots = {} THEN 0 ELSE CHOOSE i \in dots : \A j \in dots : j <= i
    IN  SubSeq(tag, last + 1, Len(tag))

\* the description of a block: the text of its description child, when it has
\* one with a text
BlockDescription(block) ==
    LET texts == { i \in 1..Len(block) :
                     block[i].tag = DescriptionTag /\ block[i].text # << >> }
    IN  IF texts = {} THEN NoDescription
        ELSE block[CHOOSE i \in texts : \A j \in texts : i <= j].text

\* the record the claim describes for a member entry
VoteRecordOf(file, e) ==
    LET block == file.roll_calls[e[1]]
        child == block[e[2]]
        group == child.groups[e[3]]
        member == group.members[e[4]]
    IN  [Date |-> IF file.date = << >> THEN UnknownDate ELSE file.date[1],
         Description |-> BlockDescription(block),
         Vote |-> LastSegment(child.tag),
         PoliticalGroup |-> IF group.identifier = << >> THEN NaNChars
                            ELSE group.identifier[1],
         MEP_ID |-> IF member.pers_id = << >> THEN NaNChars ELSE member.pers_id[1],
         Name |-> IF member.name = << >> THEN NaNChars ELSE member.name]

\* rows holds one record per member entry of the file and nothing else
Flattened(file, rows) ==
    LET wanted == { VoteRecordOf(file, e) : e \in VoteEntries(file) }
    IN  /\ Len(rows) = Cardinality(VoteEntries(file))
        /\ \A r \in wanted \cup Range(rows) :
               Cardinality({ i \in 1..Len(rows) : rows[i] = r })
                   = Cardinality({ e \in VoteEntries(file) : VoteRecordOf(file, e) = r })

\* C21: whenever parse_single_file is called on a file that ET.parse reads,
\* it returns, and the records it adds to the combined data are exactly one
\* per member entry of each political-group list of each immediate child of
\* each roll-call block, with the file's session date, the block's
\* description, the last dot-separated segment of the child's tag, the group
\* id and the member's id and name ('NaN' when absent); so the document "Test
\* Motion" gives exactly one record, with vote type "For".
C21_VoteFlattening ==
    [][(pv_pc = "loop" /\ pv_idx <= Len(pv_dir) /\ pv_file.read = "ok")
           => /\ pv_pc' = "loop"
              /\ Len(pv_combined') >= Len(pv_combined)
              /\ Flattened(pv_file, SubSeq(pv_combined', Len(pv_combined) + 1,
                                           Len(pv_combined')))]_pvVars

\* C21 on the files in which every roll-call block has its description child
C21_FlatteningWithDescriptions ==
    [][(/\ pv_pc = "loop" /\ pv_idx <= Len(pv_dir) /\ pv_file.read = "ok"
        /\ \A b \in 1..Len(pv_file.roll_calls) :
               FindDescription(pv_file.roll_calls[b]) # << >>)
           => /\ pv_pc' = "loop"
              /\ Flattened(pv_file, SubSeq(pv_combined', Len(pv_combined) + 1,
                                           Len(pv_combined')))]_pvVars

(* ================ speech_parse ================ *)

\* most pieces a paragraph text is made of
MaxPieces == 4

\* most children of a paragraph
MaxChildren == 2

\* the INTERVENTION elements speech_parse is called with:
\*  - no ORATEUR and one paragraph, its text made of at most MaxPieces pieces,
\*    each the separator ". – " or one of "a", " ", "–", ".", a line break;
\*  - no ORATEUR and two paragraphs;
\*  - no ORATEUR and one paragraph with or without a text and with at most
\*    MaxChildren children: EMPHAS runs (attribution phrases in either case,
\*    with and without what follows the phrase, parenthetical notes, plain
\*    text, no text), with and without a tail and an inner element, and
\*    another inline element with a parenthetical text;
\*  - one or two ORATEUR elements, with and without each of MEPID, PP and
\*    SPEAKER_TYPE and with several LIB values, and the paragraph
\*    "Hello world."
SpeechInputs ==
    LET Elem(tag, text, children, tail) ==
            [tag |-> tag, text |-> text, children |-> children, tail |-> tail]
        Para(text, children) == Elem("PARA", text, children, << >>)
        Speech(orateurs, paras) ==
            [tag |-> "INTERVENTION", start |-> << >>, end |-> << >>,
             orateurs |-> orateurs, paras |-> paras]
        Pieces == { NarrationSeparator, <<"a">>, <<" ">>, <<EnDash>>, <<".">>,
                    <<"\n">> }
        PieceTexts == { Join(<< >>, ps) :
                          ps \in UNION { [1..n -> Pieces] : n \in 0..MaxPieces } }
        ParaTexts == { <<"a", ".">>, <<EnDash, " ", "a">>, <<"a", ".", " ", EnDash>>, <<"a">>, << >> }
        EmphTexts ==
            { <<"(", "a", ")">>,
              <<"o", "n", " ", "b", "e", "h", "a", "l", "f", " ", "o", "f", " ", "a">>,
              <<"O", "N", " ", "B", "E", "H", "A", "L", "F", " ", "O", "F", " ", "a">>,
              <<"o", "n", " ", "b", "e", "h", "a", "l", "f", " ", "o", "f">>,
              <<" ", "(", "a", ")", " ">>,
              <<"(", "a", "\n", "b", ")">>,
              <<"a">>,
              << >> }
        Tails == { << >>, <<" ", "b", " ">> }
        Inner == <<Elem("I", <<"i">>, << >>, <<"t">>)>>
        Children ==
            { Elem("EMPHAS", text, << >>, tail) : text \in EmphTexts, tail \in Tails }
                \cup { Elem("EMPHAS", text, Inner, <<"b">>) :
                           text \in { <<"(", "a", ")">>, <<"a">> } }
                \cup { Elem("B", <<"(", "a", ")">>, << >>, <<"b">>) }
        Attr(value) == { << >>, <<value>> }
        DoeJane == <<"D", "o", "e", " ", "|", " ", "J", "a", "n", "e">>
        Pres == <<"P", "r", "e", "s">>
        Libs == { << >>, <<DoeJane>>, <<Pres>>, <<NaNChars>>, <<NameSeparator>>,
                  <<<<"D", "o", "e", " ", "|", " ", "J", " ", "|", " ", "K">>>>,
                  <<<<"D", "o", "e", " ", "|", "J", "a", "n", "e">>>> }
        Orateurs ==
            { [MEPID |-> mepid, PP |-> pp, SPEAKER_TYPE |-> type, LIB |-> lib] :
                  mepid \in Attr(<<"5">>), pp \in Attr(<<"P", "P", "E">>),
                  type \in Attr(<<"x">>), lib \in Libs }
        Second == { [MEPID |-> <<<<"6">>>>, PP |-> << >>, SPEAKER_TYPE |-> << >>,
                     LIB |-> lib] : lib \in { <<DoeJane>>, <<Pres>> } }
        Hello == <<Para(<<"H", "e", "l", "l", "o", " ", "w", "o", "r", "l", "d", ".">>, << >>)>>
    IN  { Speech(<< >>, <<Para(text, << >>)>>) : text \in PieceTexts }
            \cup { Speech(<< >>, <<Para(x, << >>), Para(y, << >>)>>) :
                       x \in ParaTexts, y \in ParaTexts }
            \cup { Speech(<< >>, <<Para(text, children)>>) :
                       text \in { << >>, <<"a">> },
                       children \in UNION { [1..n -> Children] : n \in 0..MaxChildren } }
            \cup { Speech(<< >>, Hello) }
            \cup { Speech(<<o>>, Hello) : o \in Orateurs }
            \cup { Speech(<<o, s>>, Hello) : o \in Orateurs, s \in Second }

SpeechParseInit ==
    /\ sp_speech \in { <<speech>> : speech \in SpeechInputs }
    /\ sp_pc = "start"
    /\ sp_parts = << >>
    /\ sp_result = << >>
    /\ DownloadIdle
    /\ TermIdle
    /\ SplitIdle
    /\ TranslateIdle
    /\ DurationIdle
    /\ SpeechesIdle
    /\ VotesIdle
    /\ SummaryIdle

\* speech_parse(elem, current_date, current_time_start, current_time_end,
\* topic) under the marker of 2024-01-15 from 12:00:00 to 12:05:00
SpeechCall ==
    speech_parse(sp_speech[1], Date1, FormatTime(12, 0, 0), FormatTime(12, 5, 0),
                 <<"D", "e", "b", "a", "t", "e">>)

\* the loop over speech.findall("PARA")
SpeechParse_Gather ==
    /\ sp_pc = "start"
    /\ sp_parts' = [i \in 1..Len(sp_speech[1].paras) |->
                        gather_text(sp_speech[1].paras[i])]
    /\ sp_pc' = "gathered"
    /\ UNCHANGED <<notSpeechParse, sp_speech, sp_result>>

\* the rest of speech_parse, to its return
SpeechParse_Return ==
    /\ sp_pc = "gathered"
    /\ SpeechCall.exc = "none"
    /\ sp_result' = SpeechCall.record
    /\ sp_pc' = "returned"
    /\ UNCHANGED <<notSpeechParse, sp_speech, sp_parts>>

\* the tuple unpacking of the display name raises
SpeechParse_Raises ==
    /\ sp_pc = "gathered"
    /\ SpeechCall.exc # "none"
    /\ sp_pc' = "raised"
    /\ UNCHANGED <<notSpeechParse, sp_speech, sp_parts, sp_result>>

SpeechParseNext ==
    \/ SpeechParse_Gather
    \/ SpeechParse_Return
    \/ SpeechParse_Raises

SpeechParseSpec == SpeechParseInit /\ [][SpeechParseNext]_spVars

(* ---------------- C22 ---------------- *)

\* the value of an attribute of the first ORATEUR of the intervention, "NaN"
\* when the attribute or the element is absent
OrateurAttr(speech, name) ==
    IF speech.orateurs = << >> THEN NaNChars
    ELSE IF speech.orateurs[1][name] = << >> THEN NaNChars
    ELSE speech.orateurs[1][name][1]

\* where " | " occurs in a display name
BarsIn(lib) == { k \in 1..(Len(lib) - 2) : SubSeq(lib, k, k + 2) = NameSeparator }

\* the speaker name the claim describes: 'Last First' for 'Last | First', the
\* LIB value as it is otherwise
ClaimedName(lib) ==
    IF Cardinality(BarsIn(lib)) = 1
    THEN LET k == CHOOSE i \in BarsIn(lib) : TRUE
         IN  SubSeq(lib, 1, k - 1) \o <<" ">> \o SubSeq(lib, k + 3, Len(lib))
    ELSE lib

\* C22: speech_parse returns for every intervention, and its record has the
\* MEPID, PP and SPEAKER_TYPE of the first ORATEUR ('NaN' when the attribute
\* or the element is absent) and the speaker name 'Last First' for a LIB
\* 'Last | First' and the LIB value itself otherwise; the intervention with
\* LIB 'Doe | Jane' and paragraph 'Hello world.' under the marker 12:00:00 to
\* 12:05:00 of 2024-01-15 gives the name 'Doe Jane', duration 300 and text
\* 'Hello world.'.
C22_SpeakerMetadata ==
    /\ sp_pc # "raised"
    /\ sp_pc = "returned" =>
           LET speech == sp_speech[1]
               record == sp_result[1]
           IN  /\ record.MEPID = OrateurAttr(speech, "MEPID")
               /\ record.Party = OrateurAttr(speech, "PP")
               /\ record.SpeakerType = OrateurAttr(speech, "SPEAKER_TYPE")
               /\ record.SpeakerName = ClaimedName(OrateurAttr(speech, "LIB"))
               /\ (/\ OrateurAttr(speech, "LIB") = <<"D", "o", "e", " ", "|", " ", "J", "a", "n", "e">>
                   /\ sp_parts = <<<<"H", "e", "l", "l", "o", " ", "w", "o", "r", "l", "d", ".">>>>)
                      => /\ record.SpeakerName = <<"D", "o", "e", " ", "J", "a", "n", "e">>
                         /\ record.Duration = 300
                         /\ record.Text = <<"H", "e", "l", "l", "o", " ", "w", "o", "r", "l", "d", ".">>
                         /\ record.Date = Date1

\* C22 on the interventions whose LIB has at most one " | "
C22_MetadataWhenReturned ==
    sp_pc = "returned" =>
        LET speech == sp_speech[1]
            record == sp_result[1]
        IN  /\ record.MEPID = OrateurAttr(speech, "MEPID")
            /\ record.Party = OrateurAttr(speech, "PP")
            /\ record.SpeakerType = OrateurAttr(speech, "SPEAKER_TYPE")
            /\ record.SpeakerName = ClaimedName(OrateurAttr(speech, "LIB"))

(* ---------------- C27 ---------------- *)

RECURSIVE ClaimedText(_)
RECURSIVE ClaimedParts(_)
\* the parts the claim describes for the children of an element: a skipped
\* EMPHAS run is left out, the text that follows it is kept
ClaimedParts(children) ==
    IF children = << >> THEN << >>
    ELSE LET child == Head(children)
             skipped == /\ child.tag = "EMPHAS"
                        /\ child.text # << >>
                        /\ \/ skip_phrases_pattern(strip(child.text))
                           \/ note_pattern(strip(child.text))
         IN  (IF skipped THEN << >> ELSE <<ClaimedText(child)>>)
                 \o <<strip(child.tail)>>
                 \o ClaimedParts(Tail(children))

\* the text the claim describes for a subtree
ClaimedText(element) ==
    Join(<<" ">>, SelectSeq(<<strip(element.text)>> \o ClaimedParts(element.children),
                            LAMBDA part : part # << >>))

\* C27: gather_text of a paragraph is the text of its subtree in document
\* order, the pieces trimmed and joined by single spaces, without the EMPHAS
\* runs that begin with an attribution phrase and a space or are entirely in
\* parentheses, and with all the text outside those runs, the text that
\* follows a skipped run included.
C27_TextAssembly ==
    sp_pc # "start" =>
        \A i \in 1..Len(sp_parts) :
            sp_parts[i] = ClaimedText(sp_speech[1].paras[i])

(* ---------------- C28 ---------------- *)

\* the concatenated intervention text
JoinedText == Join(<<" ">>, SelectSeq(sp_parts, LAMBDA part : part # << >>))

\* the text behind the first ". – ", the whole text when there is none
BehindNarration(text) ==
    LET at == { k \in 1..(Len(text) - 3) : SubSeq(text, k, k + 3) = NarrationSeparator }
    IN  IF at = {} THEN text
        ELSE SubSeq(text, (CHOOSE k \in at : \A j \in at : k <= j) + 4, Len(text))

\* text without the longest prefix made of the characters of chars
Without(text, chars) ==
    LET n == CHOOSE k \in 0..Len(text) :
                 /\ \A i \in 1..k : text[i] \in chars
                 /\ k < Len(text) => text[k + 1] \notin chars
    IN  SubSeq(text, n + 1, Len(text))

\* text without the longest suffix made of white space
WithoutTrailing(text) ==
    LET n == CHOOSE k \in 0..Len(text) :
                 /\ \A i \in (k + 1)..Len(text) : text[i] \in Whitespace
                 /\ k > 0 => text[k] \notin Whitespace
    IN  SubSeq(text, 1, n)

\* C28 as stated: the record's text is the concatenated text behind its first
\* ". – " (all of it when there is none) without its leading en-dash and space
\* characters, and nothing else is removed.
C28_Original ==
    sp_pc = "returned" =>
        sp_result[1].Text = Without(BehindNarration(JoinedText), {EnDash, " "})

\* C28: the record's text is the concatenated text behind its first ". – "
\* (all of it when there is none), without its white space at either end,
\* then without its leading en-dash and space characters, then without the
\* white space that follows those; later occurrences of ". – " are kept.
C28_NarrationStrip ==
    sp_pc = "returned" =>
        sp_result[1].Text =
            Without(Without(Without(WithoutTrailing(BehindNarration(JoinedText)),
                                    Whitespace),
                            {EnDash, " "}),
                    Whitespace)

\* a text with two separators was stripped up to the first, the second was
\* kept, and the line break behind the first went too
C28_Witness ==
    /\ sp_pc = "returned"
    /\ JoinedText = NarrationSeparator \o <<"\n">> \o NarrationSeparator \o <<"a">>
    /\ sp_result[1].Text = NarrationSeparator \o <<"a">>

(* ---------------- C23 ---------------- *)

\* C23: once parse_speeches or parse_votings has ended, the combined output
\* file was written if and only if at least one record was extracted, and
\* with no record the function has returned normally and written no file.
C23_OutputIffRecords ==
    /\ ps_pc \in {"done", "raised"} =>
           /\ ps_csv # << >> <=> ps_combined # << >>
           /\ ps_combined = << >> => ps_pc = "done"
    /\ pv_pc \in {"done", "raised"} =>
           /\ pv_csv # << >> <=> pv_combined # << >>
           /\ pv_combined = << >> => pv_pc = "done"

\* C23 for the calls that return: the file holds the extracted records if
\* there are any, and there is no file otherwise
C23_WhenReturned ==
    /\ ps_pc = "done" =>
           ps_csv = IF ps_combined # << >> THEN <<ps_combined>> ELSE << >>
    /\ pv_pc = "done" =>
           pv_csv = IF pv_combined # << >> THEN <<pv_combined>> ELSE << >>

(* ================ one run around the end of a term ================ *)

\* the days a run's start_date and end_date are drawn from here: the last
\* two days of term 10, 2029-06-30 and 2029-07-01, and the days after it
TermEndDays == DaysFrom(<<2029, 6, 30>>, NumDays + 2)

\* the output directory before the last run the bound allows: no log; a log
\* of size 0 (left by a killed run); the log and the raw file of a run that
\* fetched 2029-06-30; the log of a run whose GET of 2029-06-30 raised
TermEndInit ==
    /\ kind \in {"speech", "voting"}
    /\ \/ logExists = FALSE /\ logFile = << >> /\ rawFiles = << >> /\ lastRun = "none"
       \/ logExists = TRUE /\ logFile = << >> /\ rawFiles = << >> /\ lastRun = "killed"
       \/ /\ logExists = TRUE
          /\ logFile = <<Header, <<"2029-06-30", "Success", "Downloaded">>>>
          /\ rawFiles = WriteFile(<< >>, RawName(kind, 10, "2029-06-30"), "<xml a/>")
          /\ lastRun = "completed"
       \/ /\ logExists = TRUE
          /\ logFile = <<Header, <<"2029-06-30", "Request Error", "timed out">>>>
          /\ rawFiles = << >>
          /\ lastRun = "completed"
    /\ pc = "idle"
    /\ range = << >>
    /\ dates = << >>
    /\ idx = 0
    /\ log_df = EmptyDF
    /\ buf = << >>
    /\ resp = NoResp
    /\ runs = MaxRuns - 1
    /\ exc = "none"
    /\ logAtStart = << >>
    /\ undelayed = FALSE
    /\ TermIdle
    /\ SplitIdle
    /\ TranslateIdle
    /\ DurationIdle
    /\ SpeechesIdle
    /\ VotesIdle
    /\ SpeechParseIdle
    /\ SummaryIdle

TermEndNext ==
    \/ Download_StartFails
    \/ \E start_date \in TermEndDays, end_date \in TermEndDays :
           Download_Start(start_date, end_date)
    \/ Loop_Skip
    \/ Handle_TermNotFound
    \/ Handle_Get
    \/ Handle_RequestException
    \/ Handle_NotOk
    \/ Save_Ok
    \/ Save_Fails_Voting
    \/ Save_Fails_Speech
    \/ Handle_Success
    \/ Download_Finish
    \/ Kill
    \/ Kill_DuringSave
    \/ Interrupt

TermEndSpec == TermEndInit /\ [][TermEndNext]_vars

(* ---------------- C30 ---------------- *)

\* C30: no HTTP GET is issued while the politeness delay of an earlier GET
\* attempt of the run is still outstanding, whether that attempt was answered
\* (200, 404, another status) or raised a network exception.
C30_DelayAfterEveryGet == [][IssuesGet => ~undelayed]_vars

\* C30 for the GET attempts that are answered: the delay has been performed
\* when the response is in hand
C30_DelayAfterResponse == pc \in {"got", "saved"} => ~undelayed

(* ---------------- C29 ---------------- *)

\* C29: when the loop of either downloader is at a date of the range that is
\* not terminal in the log and lies in no term window, the step the program
\* takes issues no HTTP GET, appends exactly the row (date, 'Failed',
\* 'Term not found') to the rows written so far, and leaves the loop at the
\* next date of the range.
C29_TermNotFound ==
    [][(/\ pc = "loop"
        /\ idx <= Len(dates)
        /\ ~Terminal(logAtStart, date_str)
        /\ get_term(cur) = NoTerm
        /\ ~Stopped)
           => /\ ~IssuesGet
              /\ Appends(<<date_str, "Failed", "Term not found">>)
              /\ pc' = "loop"
              /\ idx' = idx + 1
              /\ dates' = dates]_vars

\* the loop has left a date outside every term window with its 'Failed' row
\* written and is at the next date of the range
C29_Witness ==
    /\ pc = "loop"
    /\ idx >= 2
    /\ idx <= Len(dates)
    /\ get_term(dates[idx - 1]) = NoTerm
    /\ ~Terminal(logAtStart, prev)
    /\ AllRows # << >>
    /\ AllRows[Len(AllRows)] = <<prev, "Failed", "Term not found">>

(* ---------------- C24 ---------------- *)

\* a number below 100 in two digits
TwoDigits(n) == ToString(n \div 10) \o ToString(n % 10)

\* a date as YYYY-MM-DD
IsoDate(d) == ToString(d[1]) \o "-" \o TwoDigits(d[2]) \o "-" \o TwoDigits(d[3])

\* '{prefix}-{term}-{YYYY-MM-DD}{suffix}'
DocName(prefix, term, d, suffix) ==
    prefix \o "-" \o ToString(term) \o "-" \o IsoDate(d) \o suffix

\* the location of a document of the European Parliament's site
DocUrl(prefix, term, d, suffix) ==
    "https://www.europarl.europa.eu/doceo/document/"
        \o DocName(prefix, term, d, suffix)

\* C24: build_url(term, date) is '.../CRE-{term}-{YYYY-MM-DD}_EN.xml' and
\* build_url_vote(term, date) is '.../PV-{term}-{YYYY-MM-DD}-RCV_EN.xml';
\* the URL fetched for a date is that of term get_term(date) and of the date;
\* the step that follows a 200 response touches no raw file but
\* '{CRE|PV}-{term}-{YYYY-MM-DD}.xml' of the same term and date, and when the
\* file is saved it holds the body of that response.
C24_DocumentLocation ==
    [][/\ \A term \in {9, 10}, d \in Days :
             /\ build_url(term, d) = DocUrl("CRE", term, d, "_EN.xml")
             /\ build_url_vote(term, d) = DocUrl("PV", term, d, "-RCV_EN.xml")
       /\ build_url(9, <<2023, 11, 21>>)
             = "https://www.europarl.europa.eu/doceo/document/CRE-9-2023-11-21_EN.xml"
       /\ (pc = "got" /\ resp.code = 200)
             => LET prefix == IF kind = "speech" THEN "CRE" ELSE "PV"
                    suffix == IF kind = "speech" THEN "_EN.xml" ELSE "-RCV_EN.xml"
                    name == DocName(prefix, get_term(cur), cur, ".xml")
                IN  /\ resp.url = DocUrl(prefix, get_term(cur), cur, suffix)
                    /\ DOMAIN rawFiles' \subseteq DOMAIN rawFiles \cup {name}
                    /\ \A n \in DOMAIN rawFiles \ {name} :
                          n \in DOMAIN rawFiles' /\ rawFiles'[n] = rawFiles[n]
                    /\ pc' = "saved"
                          => /\ name \in DOMAIN rawFiles'
                             /\ rawFiles'[name] = resp.text]_vars

\* the roll-call document of 2029-07-01 has been fetched and saved
C24_Witness ==
    /\ pc = "saved"
    /\ kind = "voting"
    /\ resp.url = "https://www.europarl.europa.eu/doceo/document/PV-10-2029-07-01-RCV_EN.xml"
    /\ resp.text \in Payloads
    /\ "PV-10-2029-07-01.xml" \in DOMAIN rawFiles
    /\ rawFiles["PV-10-2029-07-01.xml"] = resp.text

(* ---------------- C26 ---------------- *)

\* the block has no description child with a text
Undescribed(block) ==
    \A i \in 1..Len(block) : block[i].tag = DescriptionTag => block[i].text = << >>

\* the records this step adds to the combined data
NewVoteRecords ==
    Range(SubSeq(pv_combined', Len(pv_combined) + 1, Len(pv_combined')))

\* C26: whenever parse_single_file is called on a file with a roll-call block
\* whose description text is absent or empty, the file is parsed normally and
\* the record of every member entry of such a block is added with the
\* description 'No Description'.
C26_NoDescriptionDefault ==
    [][(/\ pv_pc = "loop" /\ pv_idx <= Len(pv_dir) /\ pv_file.read = "ok"
        /\ \E b \in 1..Len(pv_file.roll_calls) : Undescribed(pv_file.roll_calls[b]))
           => /\ pv_pc' = "loop"
              /\ pv_idx' = pv_idx + 1
              /\ pv_reported' = pv_reported
              /\ \A e \in VoteEntries(pv_file) :
                     Undescribed(pv_file.roll_calls[e[1]])
                         => /\ VoteRecordOf(pv_file, e).Description = NoDescription
                            /\ VoteRecordOf(pv_file, e) \in NewVoteRecords]_pvVars

\* C26 on the files in which every roll-call block has its description
\* child, with or without a text
C26_EmptyDescriptionText ==
    [][(/\ pv_pc = "loop" /\ pv_idx <= Len(pv_dir) /\ pv_file.read = "ok"
        /\ \E b \in 1..Len(pv_file.roll_calls) : Undescribed(pv_file.roll_calls[b])
        /\ \A b \in 1..Len(pv_file.roll_calls) :
               FindDescription(pv_file.roll_calls[b]) # << >>)
           => /\ pv_pc' = "loop"
              /\ pv_idx' = pv_idx + 1
              /\ pv_reported' = pv_reported
              /\ \A e \in VoteEntries(pv_file) :
                     Undescribed(pv_file.roll_calls[e[1]])
                         => /\ VoteRecordOf(pv_file, e).Description = NoDescription
                            /\ VoteRecordOf(pv_file, e) \in NewVoteRecords]_pvVars

(* ---------------- C25 ---------------- *)

\* the part of a timestamp before its first "T" (all of it without a "T") and
\* the part behind it
UpToT(stamp) ==
    LET at == { i \in 1..Len(stamp) : stamp[i] = "T" }
    IN  IF at = {} THEN stamp
        ELSE SubSeq(stamp, 1, (CHOOSE i \in at : \A j \in at : i <= j) - 1)

BehindT(stamp) ==
    LET at == { i \in 1..Len(stamp) : stamp[i] = "T" }
    IN  IF at = {} THEN << >>
        ELSE SubSeq(stamp, (CHOOSE i \in at : \A j \in at : i <= j) + 1, Len(stamp))

\* the markers of a chapter before position i: the NUMERO elements that carry
\* both VOD-START and VOD-END
MarkersBefore(elems, i) ==
    { j \in 1..(i - 1) :
        elems[j].tag = "NUMERO" /\ elems[j].start # << >> /\ elems[j].end # << >> }

\* date, start and end of the records the claim describes for a chapter, in
\* document order: one for every intervention with a marker before it, taken
\* from the most recent such marker
ClaimedTimings(elems) ==
    LET timed == SelectSeq([i \in 1..Len(elems) |-> i],
                           LAMBDA i : /\ elems[i].tag = "INTERVENTION"
                                      /\ MarkersBefore(elems, i) # {})
    IN  [k \in 1..Len(timed) |->
            LET before == MarkersBefore(elems, timed[k])
                marker == elems[CHOOSE j \in before : \A l \in before : l <= j]
            IN  [Date |-> UpToT(marker.start),
                 TimeStart |-> BehindT(marker.start),
                 TimeEnd |-> BehindT(marker.end)]]

\* the records this step adds to the combined data carry, in order, the
\* timings the claim describes for the chapters of the file
TimedAsClaimed ==
    LET want == Join(<< >>, [c \in 1..Len(ps_file.chapters) |->
                                 ClaimedTimings(ps_file.chapters[c].elems)])
        new == SubSeq(ps_combined', Len(ps_combined) + 1, Len(ps_combined'))
    IN  /\ Len(new) = Len(want)
        /\ \A k \in 1..Len(want) :
               /\ new[k].Date = want[k].Date
               /\ new[k].TimeStart = want[k].TimeStart
               /\ new[k].TimeEnd = want[k].TimeEnd

\* C25: whenever a file that ET.parse reads is processed, the records added
\* are, chapter by chapter and in document order, exactly one for every
\* INTERVENTION child that follows at least one NUMERO carrying both
\* VOD-START and VOD-END in its chapter, with the date, start and end of the
\* most recent such marker before it in that chapter: a NUMERO lacking either
\* attribute changes nothing, an intervention before the first marker of its
\* chapter gives no record, and no marker counts in a later chapter.
C25_TimingContext ==
    [][(ps_pc = "loop" /\ ps_idx <= Len(ps_dir) /\ ps_file.read = "ok")
           => /\ ps_pc' = "loop"
              /\ ps_idx' = ps_idx + 1
              /\ Len(ps_combined') >= Len(ps_combined)
              /\ TimedAsClaimed]_psVars

\* a timestamp of the form <date>T<time> with one "T", a date and a time
StampOk(stamp) ==
    /\ Cardinality({ i \in 1..Len(stamp) : stamp[i] = "T" }) = 1
    /\ UpToT(stamp) # << >>
    /\ BehindT(stamp) # << >>

\* every marker of the file has two such timestamps and every display name
\* has at most one " | "
WellFormedSpeechFile(file) ==
    \A c \in 1..Len(file.chapters) :
        \A i \in 1..Len(file.chapters[c].elems) :
            LET elem == file.chapters[c].elems[i]
            IN  /\ (elem.tag = "NUMERO" /\ elem.start # << >> /\ elem.end # << >>)
                       => StampOk(elem.start) /\ StampOk(elem.end)
                /\ \A o \in 1..Len(elem.orateurs) :
                       elem.orateurs[o].LIB # << >>
                           => Len(SplitOn(elem.orateurs[o].LIB[1], NameSeparator)) <= 2

\* C25 on the files whose markers and display names are well formed
C25_TimingOfWellFormedFiles ==
    [][(/\ ps_pc = "loop" /\ ps_idx <= Len(ps_dir) /\ ps_file.read = "ok"
        /\ WellFormedSpeechFile(ps_file))
           => /\ ps_pc' = "loop"
              /\ ps_idx' = ps_idx + 1
              /\ Len(ps_combined') >= Len(ps_combined)
              /\ TimedAsClaimed]_psVars

\* the file of two chapters has been processed: four records, the first under
\* the marker of 12:00:00, the last under the one marker of the second chapter
C25_TwoChaptersParsed ==
    /\ ps_pc = "loop"
    /\ ps_idx = 2
    /\ Len(ps_dir[1].chapters) = 2
    /\ Len(ps_combined) = 4
    /\ ps_combined[1].TimeStart = FormatTime(12, 0, 0)
    /\ ps_combined[2].TimeStart = FormatTime(12, 0, 0)
    /\ ps_combined[3].TimeStart = FormatTime(12, 5, 0)
    /\ ps_combined[4].TimeStart = FormatTime(12, 10, 0)

(* ---------------- C31 ---------------- *)

\* this step is a call of translator.translate for the current chunk that
\* returned a text
ProviderSucceeds ==
    /\ InChunk
    /\ tr_attempt < MaxAttempts
    /\ Len(tr_log') = tr_attempt + 1
    /\ tr_log'[tr_attempt + 1].did = "ok"

\* C31: the first call of the provider that succeeds for a chunk is followed
\* by the sleep of 0.4 s and by no other sleep, its translation is what
\* translate_chunk returns for the chunk, and the provider is not called
\* again for the chunk; no call before it had succeeded.
C31_ThrottleOnSuccess ==
    [][ProviderSucceeds
           => /\ tr_log'[tr_attempt + 1].slept = 4
              /\ \A n \in 1..tr_attempt : tr_log'[n].did # "ok"
              /\ \E out \in TranslationsOf(chunk) :
                     tr_translated' = Append(tr_translated, out)
              /\ tr_pos' = tr_pos + 1
              /\ tr_attempt' = 0
              /\ tr_pc' = "chunk"]_trVars

\* the second call for a chunk succeeded after a transient failure: a backoff
\* of 1 s, then the throttle delay, and the translation came back
C31_Witness ==
    /\ tr_pc = "chunk"
    /\ tr_pos > 1
    /\ tr_attempt = 0
    /\ Len(tr_log) = 2
    /\ tr_log[1] = [did |-> "transient", slept |-> 10]
    /\ tr_log[2] = [did |-> "ok", slept |-> 4]
    /\ Len(tr_translated) = tr_pos - 1
    /\ tr_translated[tr_pos - 1] \in TranslationsOf(tr_chunks[tr_pos - 1])

(* ================ either parser ================ *)

\* one call of parse_speeches or one call of parse_votings
ParsersInit == SpeechesInit \/ VotesInit

ParsersNext == SpeechesNext \/ VotesNext

ParsersSpec == ParsersInit /\ [][ParsersNext]_<<psVars, pvVars>>

(* ---------------- C32 ---------------- *)

\* the records of each file of a directory that is processed without an
\* error, one file after the other in the order of the listing
SpeechRecordsPerFile ==
    [i \in 1..Len(ps_dir) |->
        IF SpeechFileFails(ps_dir[i]) THEN << >>
        ELSE ParseSpeechFile(ps_dir[i], << >>).records]

VoteRecordsPerFile ==
    [i \in 1..Len(pv_dir) |->
        IF VoteFileFails(pv_dir[i]) THEN << >>
        ELSE parse_single_file(pv_dir[i]).records]

RECURSIVE SumOfLengths(_)
SumOfLengths(seqs) ==
    IF seqs = << >> THEN 0 ELSE Len(Head(seqs)) + SumOfLengths(Tail(seqs))

\* C32: the combined output of parse_speeches, and of parse_votings, is the
\* records of the first successfully processed file in document order, then
\* those of the second, and so on, and nothing else: it has as many rows as
\* the files have records together.
C32_RecordAssembly ==
    /\ ps_csv # << >> =>
           \A recs \in {SpeechRecordsPerFile} :
               /\ ps_csv[1] = Join(<< >>, recs)
               /\ Len(ps_csv[1]) = SumOfLengths(recs)
    /\ pv_csv # << >> =>
           \A recs \in {VoteRecordsPerFile} :
               /\ pv_csv[1] = Join(<< >>, recs)
               /\ Len(pv_csv[1]) = SumOfLengths(recs)

\* the output of parse_votings for two files that have different records: the
\* records of the first, then those of the second
C32_Witness ==
    /\ pv_pc = "done"
    /\ Len(pv_dir) = 2
    /\ VoteRecordsPerFile[1] # << >>
    /\ VoteRecordsPerFile[2] # << >>
    /\ VoteRecordsPerFile[1] # VoteRecordsPerFile[2]
    /\ pv_csv = <<VoteRecordsPerFile[1] \o VoteRecordsPerFile[2]>>

(* ================ summarize_voting_statistics ================ *)

\* most rows of a voting table
MaxRows == 3

\* number of description texts; a description is identified by its rank in
\* the sort order of the texts, 1..NumDescriptions
NumDescriptions == 2

\* grouped after groupby('Description')['Vote'].value_counts()
\* .unstack(fill_value=0).reindex(columns=['For', 'Against', 'Abstention'],
\* fill_value=0): one row per description that has a row with a vote, in
\* sort order, with the number of its rows of each of the three vote types;
\* groupby leaves out the rows whose description is missing and value_counts
\* those whose vote is missing
grouped(table) ==
    LET Count(d, v) ==
            Cardinality({ i \in 1..Len(table) :
                            table[i].Description = <<d>> /\ table[i].Vote = <<v>> })
        keys == SelectSeq([d \in 1..NumDescriptions |-> d],
                          LAMBDA d : \E i \in 1..Len(table) :
                                        /\ table[i].Description = <<d>>
                                        /\ table[i].Vote # << >>)
    IN  [k \in 1..Len(keys) |->
            [Description |-> keys[k],
             For |-> Count(keys[k], "For"),
             Against |-> Count(keys[k], "Against"),
             Abstention |-> Count(keys[k], "Abstention"),
             Outcome |-> ""]]

\* the lambda of grouped.apply
Outcome(row) ==
    IF row.For > row.Against + row.Abstention THEN "Accepted" ELSE "Rejected"

\* the dataframe: at most MaxRows rows, each with a description or none and
\* with one of four vote types or none
SummaryInit ==
    /\ LET Rows == [Description : {<< >>} \cup { <<d>> : d \in 1..NumDescriptions },
                    Vote : {<< >>} \cup { <<v>> : v \in {"For", "Against",
                                                         "Abstention", "Other"} }]
       IN  sv_table \in UNION { [1..n -> Rows] : n \in 0..MaxRows }
    /\ sv_pc = "start"
    /\ sv_grouped = << >>
    /\ sv_out = << >>
    /\ DownloadIdle
    /\ TermIdle
    /\ SplitIdle
    /\ TranslateIdle
    /\ DurationIdle
    /\ SpeechesIdle
    /\ VotesIdle
    /\ SpeechParseIdle

Summary_Group ==
    /\ sv_pc = "start"
    /\ sv_grouped' = grouped(sv_table)
    /\ sv_pc' = "grouped"
    /\ UNCHANGED <<notSummary, sv_table, sv_out>>

\* grouped['Outcome'] = grouped.apply(..., axis=1)
Summary_Classify ==
    /\ sv_pc = "grouped"
    /\ sv_grouped' = [k \in 1..Len(sv_grouped) |->
                         [sv_grouped[k] EXCEPT !.Outcome = Outcome(sv_grouped[k])]]
    /\ sv_pc' = "classified"
    /\ UNCHANGED <<notSummary, sv_table, sv_out>>

\* grouped has no row: apply returns an empty frame of three columns, and
\* assigning it to the one column 'Outcome' raises ValueError in the versions
\* of pandas that refuse it
Summary_ClassifyRaises ==
    /\ sv_pc = "grouped"
    /\ sv_grouped = << >>
    /\ sv_pc' = "raised"
    /\ UNCHANGED <<notSummary, sv_table, sv_grouped, sv_out>>

\* total_votings, accepted_votings and rejected_votings, printed
Summary_Print ==
    /\ sv_pc = "classified"
    /\ sv_out' = <<Len(sv_grouped),
                   Len(SelectSeq(sv_grouped, LAMBDA row : row.Outcome = "Accepted")),
                   Len(SelectSeq(sv_grouped, LAMBDA row : row.Outcome = "Rejected"))>>
    /\ sv_pc' = "printed"
    /\ UNCHANGED <<notSummary, sv_table, sv_grouped>>

SummaryNext ==
    \/ Summary_Group
    \/ Summary_Classify
    \/ Summary_ClassifyRaises
    \/ Summary_Print

SummarySpec == SummaryInit /\ [][SummaryNext]_svVars

(* ---------------- C33 ---------------- *)

\* the descriptions of the table
DistinctDescriptions ==
    { d \in 1..NumDescriptions : \E i \in 1..Len(sv_table) :
                                    sv_table[i].Description = <<d>> }

\* number of rows of a description with a vote type
RowsOf33(d, v) ==
    Cardinality({ i \in 1..Len(sv_table) :
                    sv_table[i].Description = <<d>> /\ sv_table[i].Vote = <<v>> })

\* the votings the claim classifies 'Accepted'
AcceptedVotings ==
    { d \in DistinctDescriptions :
        RowsOf33(d, "For") > RowsOf33(d, "Against") + RowsOf33(d, "Abstention") }

\* the summary printed is the one the claim describes
SummaryAsClaimed ==
    /\ sv_out[1] = Cardinality(DistinctDescriptions)
    /\ sv_out[2] = Cardinality(AcceptedVotings)
    /\ sv_out[3] = Cardinality(DistinctDescriptions \ AcceptedVotings)
    /\ sv_out[2] + sv_out[3] = sv_out[1]

\* C33: for every input table summarize_voting_statistics reports, and does
\* not raise: the total is the number of distinct descriptions, a voting is
\* 'Accepted' iff it has more 'For' rows than 'Against' and 'Abstention' rows
\* together and 'Rejected' otherwise, and accepted + rejected = total.
C33_VotingSummary ==
    /\ sv_pc # "raised"
    /\ sv_pc = "printed" => SummaryAsClaimed

\* C33 on the tables that have a row and no missing value: the summary is
\* printed as claimed
C33_OnCompleteTables ==
    (/\ sv_table # << >>
     /\ \A i \in 1..Len(sv_table) :
            sv_table[i].Description # << >> /\ sv_table[i].Vote # << >>)
        => /\ sv_pc # "raised"
           /\ sv_pc = "printed" => SummaryAsClaimed

\* a table of two votings, one accepted by two votes to one and one rejected
\* by a tie, has been summarised
C33_TwoVotings ==
    /\ sv_pc = "printed"
    /\ sv_out = <<2, 1, 1>>

(* ---------------- C34 ---------------- *)

\* the log, the rows not yet flushed included, has a 'Success' row of the day
HasSuccessRow(d) ==
    \E i \in 1..Len(AllRows) :
        AllRows[i][1] = strftime(d) /\ AllRows[i][2] = "Success"

\* C34: in every state of every sequence of download runs, crashed runs
\* included, every day with a 'Success' row in the log has its raw file, and
\* the file holds a fetched payload.
C34_SuccessImpliesPayload ==
    \A d \in Days :
        HasSuccessRow(d)
            => /\ RawNameOf(d) \in DOMAIN rawFiles
               /\ rawFiles[RawNameOf(d)] \in Payloads

\* C34 for the output directories whose log, when there is one, begins with
\* the header Date,Status,Details
C34_UnderTheHeader ==
    (logFile # << >> => logFile[1] = Header) => C34_SuccessImpliesPayload

\* a day has its 'Success' row and its raw file after one run and is skipped
\* by the next
C34_SuccessKept ==
    /\ runs = 2
    /\ pc = "loop"
    /\ idx > 1
    /\ IsSkipped(log_df, strftime(dates[idx - 1]))
    /\ HasSuccessRow(dates[idx - 1])
    /\ rawFiles[RawNameOf(dates[idx - 1])] \in Payloads

(* ---------------- C35 ---------------- *)

\* the log began absent: what it holds begins with the header the first run
\* wrote
BeganAbsent == AllRows # << >> => AllRows[1] = Header

\* C35: when the log began absent, in every state of every sequence of runs
\* (completed or not) no row of a date comes after a 'Success' or 'Not Found'
\* row of that date: the rows of a date are non-terminal rows followed by at
\* most one terminal row.
C35_PerDateShape ==
    BeganAbsent =>
        \A i \in 1..Len(AllRows), j \in 1..Len(AllRows) :
            (i < j /\ AllRows[i][1] = AllRows[j][1])
                => AllRows[i][2] \notin {"Success", "Not Found"}

\* two completed runs from an absent log: a day has a 'Failed' row of the
\* first run followed by the 'Not Found' row of the second
C35_Witness ==
    /\ lastRun = "completed"
    /\ runs = 2
    /\ Len(logFile) = 3
    /\ logFile[1] = Header
    /\ logFile[2][1] = logFile[3][1]
    /\ logFile[2][2] = "Failed"
    /\ logFile[3][2] = "Not Found"

(* ---------------- C36: the header row ---------------- *)

\* the first line of a log is never rewritten, so a log that began with a
\* malformed header still begins with it; every other log began absent
BeganMalformed == AllRows # << >> /\ AllRows[1] \in BadHeaders

\* the header is the first line of the file and no other line of it
HeaderExactlyOnce(file) ==
    /\ file # << >>
    /\ file[1] = Header
    /\ \A i \in 2..Len(file) : file[i] # Header

\* C36: a run start writes the header row exactly when the opened log file is
\* empty; and whenever a run completes on a log that began absent, the first
\* line of the log file is the header and no other line is the header
C36_HeaderStep ==
    /\ (pc = "idle" /\ pc' = "loop") =>
           (logFile' \o buf' =
                IF OpenAppend(logExists, logFile) = << >>
                THEN <<Header>> ELSE logFile)
    /\ (lastRun' = "completed" /\ pc' = "idle" /\ ~BeganMalformed') =>
           HeaderExactlyOnce(logFile')

C36_HeaderOnce == [][C36_HeaderStep]_vars

\* two runs are over, the last one completed, and the log holds the header
\* and one row: one of the two runs added no row (an empty range, or a range
\* whose only date was already terminal)
C36_Witness ==
    /\ runs = 2
    /\ pc = "idle"
    /\ lastRun = "completed"
    /\ Len(logFile) = 2
    /\ HeaderExactlyOnce(logFile)
    /\ logFile[2][2] = "Success"

(* ---------------- C37: split_text_into_chunks terminates ---------------- *)

\* the loop of split_text_into_chunks is scheduled until the function returns
SplitFairSpec == SplitSpec /\ WF_splitVars(SplitNext)

\* an iteration of the loop leaves a strictly shorter remaining text
IterationShortens ==
    (split_pc' = "loop" /\ split_chunks' # split_chunks)
        => Len(split_text') < Len(split_text)

\* C37: for every text and every max_length >= 1 each iteration of the loop
\* of split_text_into_chunks strictly shortens the remaining text, and the
\* function returns.
C37_SplitTerminates ==
    /\ [][IterationShortens]_splitVars
    /\ <>(split_pc = "done")

\* a text whose only space at or before max_length is at index 0 was split
\* there (an empty chunk), its rest without a space was split at max_length,
\* and the function has returned
C37_Witness ==
    /\ split_pc = "done"
    /\ split_input = <<" ", "a", "a", "a", "a">>
    /\ split_max = 3
    /\ split_chunks = << << >>, <<"a", "a", "a">>, <<"a">> >>

(* ---------------- C38: a file that fails part-way ---------------- *)

\* processing the file raises after records of it were appended to
\* combined_data
FailsPartWay(file) ==
    LET r == ParseSpeechFile(file, << >>)
    IN  r.exc # "none" /\ r.records # << >>

\* the try block was entered for the file at position i and has been left
Handled(i) == i < ps_idx \/ (i = ps_idx /\ ps_pc = "raised")

C38_NoOutputAfterPartWayFailure ==
    \A i \in 1..Len(ps_dir) :
        (Handled(i) /\ FailsPartWay(ps_dir[i])) =>
            /\ ps_pc = "raised"
            /\ ps_exc \notin SpeechCaught
            /\ ps_csv = << >>

\* the second of two files failed part-way: combined_data holds the records of
\* the first file and the record of the second file's first intervention
C38_PartialRecordsHeld ==
    /\ Len(ps_dir) = 2
    /\ ps_pc = "raised"
    /\ ~SpeechFileFails(ps_dir[1])
    /\ FailsPartWay(ps_dir[2])
    /\ \A recs \in {ParseSpeechFile(ps_dir[1], << >>).records} :
           /\ recs # << >>
           /\ Len(ps_combined) = Len(recs) + 1
           /\ SubSeq(ps_combined, 1, Len(recs)) = recs

====
